---- MODULE Spec2Model ----
(***************************************************************************)
(* QRFS: the disk layout (disk.rs), the formatter (mkfs.rs, fs_format.rs)  *)
(* and the filesystem driver (fs.rs) over a block store (storage.rs).      *)
(*                                                                         *)
(* The store is kept per region: the free-map region as its bytes, the     *)
(* inode-table region as the bincode records that fit into it, and the     *)
(* data region as a map from block id to the 128 bytes of the block (an    *)
(* id absent from the map reads as zeros, as an unwritten block does).     *)
(***************************************************************************)
EXTENDS Integers, Sequences, FiniteSets, TLC

\* ---------------------------------------------------------------- constants

\* disk.rs: pub const BLOCK_SIZE: usize = 128
BLOCK_SIZE == 128

\* disk.rs Superblock::new: let bytes_per_inode = 80
bytes_per_inode == 80

\* mkfs.rs mkfs_with_params: let inode_count = 64
inode_count == 64

\* mkfs.rs mkfs_with_params: the block count used when none is given
default_blocks == 128

\* disk.rs Inode::new: mode: 0o755
MODE_NEW == 493

\* bincode's size of an Inode with no blocks: id 4, kind 4, size 8,
\* blocks length 8, mode 2, created_at 8, modified_at 8
INODE_FIXED_BYTES == 42

\* bincode's size of one BlockId (u32) of Inode.blocks
BLOCK_ID_BYTES == 4

\* Option::None of a block or inode id: no id is negative
None == 0 - 1

\* ---------------------------------------------------------------- bytes

Min(a, b) == IF a < b THEN a ELSE b
Max(a, b) == IF a > b THEN a ELSE b

Pow2(k) == CASE k = 0 -> 1 [] k = 1 -> 2 [] k = 2 -> 4 [] k = 3 -> 8
             [] k = 4 -> 16 [] k = 5 -> 32 [] k = 6 -> 64 [] k = 7 -> 128

\* (byte & (1 << bit)) != 0
BitOf(byte, bit) == (byte \div Pow2(bit)) % 2 = 1

\* byte | (1 << bit)
SetBit(byte, bit) == IF BitOf(byte, bit) THEN byte ELSE byte + Pow2(bit)

\* byte & !(1 << bit)
ClearBit(byte, bit) == IF BitOf(byte, bit) THEN byte - Pow2(bit) ELSE byte

\* a byte from its bits
RECURSIVE ByteOfBits(_, _)
ByteOfBits(bits, b) ==
    IF b >= 8 THEN 0 ELSE (IF b \in bits THEN Pow2(b) ELSE 0) + ByteOfBits(bits, b + 1)

\* vec![0u8; n]
Zeros(n) == [i \in 1..n |-> 0]

\* the bit of block id in a bitmap held as bytes (byte k of the code is k + 1 here)
HasBit(bm, id) == (id \div 8) + 1 \in 1..Len(bm)
IsUsed(bm, id) == HasBit(bm, id) /\ BitOf(bm[(id \div 8) + 1], id % 8)

\* ---------------------------------------------------------------- layout

\* u32 values are held in two halves of 16 bits, hi * Half + lo, where they can
\* pass the range of the integers here; over tells that the operation overflowed
Half == 65536

\* a * k in u32, for a below 2^31 and k below 2^15
MulU32(a, k) ==
    LET lo == (a % Half) * k
        hi == (a \div Half) * k + lo \div Half
    IN [hi |-> hi % Half, lo |-> lo % Half, over |-> hi >= Half]

\* v + k in u32, for k below 2^15
AddU32(v, k) ==
    LET lo == v.lo + k
        hi == v.hi + lo \div Half
    IN [hi |-> hi % Half, lo |-> lo % Half, over |-> hi >= Half]

\* v - 1 in u32
DecU32(v) ==
    IF v.lo > 0 THEN [hi |-> v.hi, lo |-> v.lo - 1, over |-> FALSE]
    ELSE IF v.hi > 0 THEN [hi |-> v.hi - 1, lo |-> Half - 1, over |-> FALSE]
    ELSE [hi |-> Half - 1, lo |-> Half - 1, over |-> TRUE]

\* v / k in u32, for k a divisor of Half
DivU32(v, k) == v.hi * (Half \div k) + v.lo \div k

\* disk.rs Superblock::new, the steps of (total_inode_bytes + block_size - 1)
SumInodeBytes(icount) ==
    LET total_inode_bytes == MulU32(icount, bytes_per_inode)
        plus == AddU32(total_inode_bytes, BLOCK_SIZE)
        minus == DecU32(plus)
    IN [val |-> minus, over |-> total_inode_bytes.over \/ plus.over \/ minus.over]

\* disk.rs Superblock::new in a build with overflow checks (the default of a
\* debug build): whether the arithmetic panics
Superblock_new_panics(icount) == SumInodeBytes(icount).over

\* disk.rs Superblock::new; without overflow checks the u32 arithmetic wraps
Superblock_new(total_blocks, icount) ==
    LET free_map_start == 1
        free_map_blocks == 1
        inode_table_start == free_map_start + free_map_blocks
        inode_table_blocks == DivU32(SumInodeBytes(icount).val, BLOCK_SIZE)
    IN [ block_size |-> BLOCK_SIZE,
         total_blocks |-> total_blocks,
         free_map_start |-> free_map_start,
         free_map_blocks |-> free_map_blocks,
         inode_table_start |-> inode_table_start,
         inode_count |-> icount,
         inode_table_blocks |-> inode_table_blocks,
         root_inode |-> 0,
         data_block_start |-> inode_table_start + inode_table_blocks ]

\* create_empty_bitmap with the division rounding down
create_empty_bitmap_floor(total_blocks) == Zeros(total_blocks \div 8)

\* fs_format.rs create_empty_bitmap; total_blocks as usize + 7 is taken in 64 bits
create_empty_bitmap(total_blocks) == Zeros((total_blocks + 7) \div 8)

\* ---------------------------------------------------------------- allocator

\* fs.rs allocate_block, the inner loop: the bits of one byte from bit_idx on.
\* The result is "found" with the id, "none" (return None) or "next" (next byte).
RECURSIVE ScanBits(_, _, _, _)
ScanBits(byte, byte_idx, bit_idx, sb) ==
    IF bit_idx >= 8 THEN [r |-> "next", id |-> 0]
    ELSE LET global_id == byte_idx * 8 + bit_idx IN
         IF global_id < sb.data_block_start
           THEN ScanBits(byte, byte_idx, bit_idx + 1, sb)
         ELSE IF global_id >= sb.total_blocks
           THEN [r |-> "none", id |-> 0]
         ELSE IF ~BitOf(byte, bit_idx)
           THEN [r |-> "found", id |-> global_id]
         ELSE ScanBits(byte, byte_idx, bit_idx + 1, sb)

\* fs.rs allocate_block, the outer loop over the bytes lo..hi of the bitmap in
\* order, the range split in halves: a byte of 0xFF is skipped
RECURSIVE ScanRange(_, _, _, _)
ScanRange(bm, lo, hi, sb) ==
    IF lo > hi THEN [r |-> "next", id |-> 0]
    ELSE IF lo = hi
      THEN (IF bm[lo + 1] = 255 THEN [r |-> "next", id |-> 0]
            ELSE ScanBits(bm[lo + 1], lo, 0, sb))
    ELSE LET mid == (lo + hi) \div 2
             first == ScanRange(bm, lo, mid, sb)
         IN IF first.r = "next" THEN ScanRange(bm, mid + 1, hi, sb) ELSE first

\* fs.rs allocate_block: the id returned, None when the loop ends without one
ScanBytes(bm, byte_idx, sb) ==
    LET s == ScanRange(bm, byte_idx, Len(bm) - 1, sb) IN
    IF s.r = "found" THEN s.id ELSE None

\* allocate_block that hands out the free bit without marking it
allocate_block_nomark(bm, sb) ==
    [id |-> ScanBytes(bm, 0, sb), bitmap |-> bm]

\* allocate_block without the test against data_block_start
allocate_block_noreserve(bm, sb) ==
    LET id == ScanBytes(bm, 0, [sb EXCEPT !.data_block_start = 0]) IN
    IF id = None THEN [id |-> None, bitmap |-> bm]
    ELSE [id |-> id,
          bitmap |-> [bm EXCEPT ![(id \div 8) + 1] = SetBit(@, id % 8)]]

\* allocate_block that takes the last free bit of the byte instead of the first
allocate_block_high(bm, sb) ==
    LET id == ScanBytes(bm, 0, sb) IN
    IF id = None THEN [id |-> None, bitmap |-> bm]
    ELSE LET cand == {j \in (id + 1)..((id \div 8) * 8 + 7) :
                         j < sb.total_blocks /\ ~IsUsed(bm, j)}
             pick == IF cand = {} THEN id
                     ELSE CHOOSE j \in cand : \A k \in cand : k <= j
         IN [id |-> pick,
             bitmap |-> [bm EXCEPT ![(pick \div 8) + 1] = SetBit(@, pick % 8)]]

\* allocate_block that hands out the block's index within the data region
allocate_block_relative(bm, sb) ==
    LET id == ScanBytes(bm, 0, sb) IN
    IF id = None THEN [id |-> None, bitmap |-> bm]
    ELSE [id |-> id - sb.data_block_start,
          bitmap |-> [bm EXCEPT ![(id \div 8) + 1] = SetBit(@, id % 8)]]

\* fs.rs allocate_block: the id handed out (or None) and the bitmap afterwards
allocate_block(bm, sb) ==
    LET id == ScanBytes(bm, 0, sb) IN
    IF id = None THEN [id |-> None, bitmap |-> bm]
    ELSE [id |-> id,
          bitmap |-> [bm EXCEPT ![(id \div 8) + 1] = SetBit(@, id % 8)]]

\* ---------------------------------------------------------------- records

\* the value of SystemTime::now() in seconds; the model's clock does not advance
Now == 1

\* disk.rs Inode::new
Inode_new(id, kind) ==
    [ id |-> id, kind |-> kind, size |-> 0, blocks |-> <<>>, mode |-> MODE_NEW,
      created_at |-> Now, modified_at |-> Now ]

\* fs.rs save_inode_table: the placeholder written for an id that is not in memory
Placeholder(id) == [Inode_new(id, "File") EXCEPT !.mode = 0]

\* bincode::serialize(&inode).len()
InodeBytes(inode) == INODE_FIXED_BYTES + BLOCK_ID_BYTES * Len(inode.blocks)

\* the records of a bincode stream that lie wholly within the first cap bytes:
\* what a reader of the inode-table region can still decode
RECURSIVE FitRange(_, _, _, _, _)
FitRange(recs, lo, hi, used, cap) ==
    IF lo > hi THEN [n |-> 0, used |-> used, full |-> FALSE]
    ELSE IF lo = hi
      THEN (IF used + InodeBytes(recs[lo]) > cap
              THEN [n |-> 0, used |-> used, full |-> TRUE]
              ELSE [n |-> 1, used |-> used + InodeBytes(recs[lo]), full |-> FALSE])
    ELSE LET mid == (lo + hi) \div 2
             first == FitRange(recs, lo, mid, used, cap)
         IN IF first.full THEN first
            ELSE LET rest == FitRange(recs, mid + 1, hi, first.used, cap)
                 IN [rest EXCEPT !.n = first.n + @]

FitCount(recs, i, used, cap) == (i - 1) + FitRange(recs, i, Len(recs), used, cap).n

FitPrefix(recs, cap) == SubSeq(recs, 1, FitCount(recs, 1, 0, cap))

\* the bytes the inode-table region holds
TableCapacity(sb) == sb.inode_table_blocks * sb.block_size

\* fs_format.rs create_inode_table
create_inode_table(count) ==
    [i \in 1..count |-> Inode_new(i - 1, IF i - 1 = 0 THEN "Directory" ELSE "File")]

\* ---------------------------------------------------------------- bincode of the directory

\* little-endian u32 and u64 of a value below 2^31
U32(n) == << n % 256, (n \div 256) % 256, (n \div 65536) % 256, n \div 16777216 >>
U64(n) == U32(n) \o <<0, 0, 0, 0>>

\* InodeKind as bincode writes it: the variant index
KindIndex(kind) == IF kind = "File" THEN 0 ELSE 1

\* bincode::serialize of one DirectoryEntry {name, inode_id, kind}
EntryBytes(e) == U64(Len(e.name)) \o e.name \o U32(e.inode_id) \o U32(KindIndex(e.kind))

RECURSIVE EntriesBytes(_, _)
EntriesBytes(entries, i) ==
    IF i > Len(entries) THEN <<>>
    ELSE EntryBytes(entries[i]) \o EntriesBytes(entries, i + 1)

\* bincode::serialize(&Vec<DirectoryEntry>)
serialize_dir(entries) == U64(Len(entries)) \o EntriesBytes(entries, 1)

\* a little-endian integer of w bytes at offset pos (0-based); "eof" when the
\* buffer ends first, "big" when the value is 2^31 or more
ReadInt(buf, pos, w) ==
    IF pos + w > Len(buf) THEN [r |-> "eof", v |-> 0]
    ELSE IF \/ \E k \in 5..w : buf[pos + k] # 0
            \/ buf[pos + 4] >= 128
      THEN [r |-> "big", v |-> 0]
    ELSE [r |-> "ok",
          v |-> buf[pos + 1] + 256 * buf[pos + 2] + 65536 * buf[pos + 3]
                + 16777216 * buf[pos + 4]]

\* bincode reading n more DirectoryEntry values at pos; every byte the model keeps
\* in a directory block is below 128, so a name is always valid UTF-8
RECURSIVE ReadEntries(_, _, _, _)
ReadEntries(buf, pos, n, acc) ==
    IF n = 0 THEN [ok |-> TRUE, entries |-> acc]
    ELSE LET nl == ReadInt(buf, pos, 8) IN
         IF nl.r # "ok" \/ pos + 8 + nl.v > Len(buf) THEN [ok |-> FALSE, entries |-> <<>>]
         ELSE LET name == SubSeq(buf, pos + 9, pos + 8 + nl.v)
                  id == ReadInt(buf, pos + 8 + nl.v, 4)
                  kd == ReadInt(buf, pos + 12 + nl.v, 4)
              IN IF id.r # "ok" \/ kd.r # "ok" \/ kd.v > 1
                   THEN [ok |-> FALSE, entries |-> <<>>]
                 ELSE ReadEntries(buf, pos + 16 + nl.v, n - 1,
                        Append(acc, [name |-> name, inode_id |-> id.v,
                                     kind |-> IF kd.v = 0 THEN "File" ELSE "Directory"]))

\* bincode::deserialize::<Vec<DirectoryEntry>>; trailing bytes are allowed. A
\* count of 2^31 or more runs past the end of any buffer of the model.
deserialize_dir(buf) ==
    LET n == ReadInt(buf, 0, 8) IN
    IF n.r # "ok" THEN [ok |-> FALSE, entries |-> <<>>]
    ELSE IF n.v > Len(buf) \div 16 THEN [ok |-> FALSE, entries |-> <<>>]
    ELSE ReadEntries(buf, 8, n.v, <<>>)

\* ---------------------------------------------------------------- block store

\* storage.rs read_block of a data block: an absent unit reads as zeros
read_block(st, id) == IF id \in DOMAIN st.data THEN st.data[id] ELSE Zeros(BLOCK_SIZE)

\* storage.rs write_block: the payload zero-padded to the block size
Padded(bytes, n) == [i \in 1..n |-> IF i <= Len(bytes) THEN bytes[i] ELSE 0]

\* one write to the store applied to its contents: the free-map region, the
\* inode-table region, or one data block
Apply(st, w) ==
    CASE w.region = "fmap" -> [st EXCEPT !.fmap = w.val]
      [] w.region = "itab" -> [st EXCEPT !.itab = w.val]
      [] w.region = "data" ->
           [st EXCEPT !.data =
               IF w.val = Zeros(BLOCK_SIZE)
                 THEN (IF DOMAIN st.data \ {w.id} = {} THEN << >>
                       ELSE [b \in DOMAIN st.data \ {w.id} |-> st.data[b]])
                 ELSE (w.id :> w.val) @@ st.data]

RECURSIVE ApplyAll(_, _, _)
ApplyAll(st, writes, n) ==
    IF n = 0 THEN st ELSE Apply(ApplyAll(st, writes, n - 1), writes[n])

\* ---------------------------------------------------------------- format

\* the bits 0..n-1 of a byte set
RECURSIVE SetLowBits(_, _)
SetLowBits(byte, n) == IF n <= 0 THEN byte ELSE SetLowBits(SetBit(byte, n - 1), n - 1)

\* mkfs.rs mkfs_with_params: the bitmap with the reserved blocks blk..stop-1
\* marked used, byte by byte
MarkReserved(bm, blk, stop) ==
    [i \in 1..Len(bm) |->
        IF blk = 0 THEN SetLowBits(bm[i], Min(8, stop - 8 * (i - 1))) ELSE bm[i]]

\* mkfs.rs mkfs_with_params: the contents of the store after formatting
mkfs_with_params(total_blocks) ==
    LET sb == Superblock_new(total_blocks, inode_count)
        bm == MarkReserved(create_empty_bitmap(sb.total_blocks), 0, sb.data_block_start)
    IN [ sb |-> sb,
         fmap |-> Padded(SubSeq(bm, 1, Min(Len(bm), sb.block_size)), sb.block_size),
         itab |-> FitPrefix(create_inode_table(sb.inode_count), TableCapacity(sb)),
         data |-> << >> ]

\* ---------------------------------------------------------------- mount

\* fs.rs QrfsFilesystem::new, step 3: the live inodes of the stored table, the
\* last record of an id replacing the earlier ones (HashMap::insert)
LoadInodes(itab, i, acc) ==
    LET kept == {k \in i..Len(itab) : itab[k].id = 0 \/ itab[k].mode # 0}
        ids == {itab[k].id : k \in kept}
        last(id) == CHOOSE k \in kept : itab[k].id = id /\ \A j \in kept : itab[j].id = id => j <= k
    IN IF ids = {} THEN acc ELSE [id \in ids |-> itab[last(id)]] @@ acc

\* the bytes of a list of blocks, concatenated
RECURSIVE ReadBlocks(_, _, _)
ReadBlocks(st, blocks, i) ==
    IF i > Len(blocks) THEN <<>>
    ELSE read_block(st, blocks[i]) \o ReadBlocks(st, blocks, i + 1)

\* fs.rs load_directory: r is "ok" with the entries, "err", or "panic" when the
\* slice raw_data[..size] is out of range
load_directory(inodes, st, inode_id) ==
    IF inode_id \notin DOMAIN inodes THEN [r |-> "ok", entries |-> <<>>]
    ELSE LET inode == inodes[inode_id] IN
         IF \E i \in 1..Len(inode.blocks) : inode.blocks[i] >= st.sb.total_blocks
           THEN [r |-> "err", entries |-> <<>>]
         ELSE LET raw_data == ReadBlocks(st, inode.blocks, 1) IN
              IF inode.size = 0 \/ raw_data = <<>> THEN [r |-> "ok", entries |-> <<>>]
              ELSE IF inode.size > Len(raw_data) THEN [r |-> "panic", entries |-> <<>>]
              ELSE LET d == deserialize_dir(SubSeq(raw_data, 1, inode.size)) IN
                   IF d.ok THEN [r |-> "ok", entries |-> d.entries]
                   ELSE [r |-> "err", entries |-> <<>>]

DotName == <<46>>
DotDotName == <<46, 46>>

\* fs.rs QrfsFilesystem::new: the cache built from the loaded entries
RECURSIVE CacheOf(_, _, _)
CacheOf(entries, i, acc) ==
    IF i > Len(entries) THEN acc
    ELSE CacheOf(entries, i + 1,
           IF entries[i].name # DotName /\ entries[i].name # DotDotName
             THEN (entries[i].name :> entries[i].inode_id) @@ acc ELSE acc)

\* fs.rs QrfsFilesystem::new: the driver state built from the store
QrfsFilesystem_new(st) ==
    LET sb == st.sb
        total_bytes == (sb.total_blocks + 7) \div 8
        loaded == LoadInodes(st.itab, 1, << >>)
        dir == load_directory(loaded, st, sb.root_inode)
    IN [ ok |-> dir.r # "panic",
         superblock |-> sb,
         bitmap |-> SubSeq(st.fmap, 1, Min(Len(st.fmap), total_bytes)),
         inodes |-> loaded,
         dir_cache |-> CacheOf(dir.entries, 1, << >>) ]

\* ---------------------------------------------------------------- persistence

(* A handler runs on a context c: the driver's inodes, bitmap and dir_cache,   *)
(* the store st, the writes the handler has made to the store so far, the      *)
(* number io of writes it has attempted, the attempt fail that the store       *)
(* rejects (0: none), ok, the result of the last call, rfail, whether the      *)
(* store fails to read a data block, rhit, whether a read has failed, and      *)
(* dir_err, whether save_root_directory returned Err to the handler.           *)

\* F(x), with x computed once
Bind(x, F(_)) == CHOOSE r \in {F(v) : v \in {x}} : TRUE

\* storage.write_block as the driver calls it: the write number c.fail returns Err
StoreWrite(c, w) ==
    IF c.io + 1 = c.fail THEN [c EXCEPT !.io = @ + 1, !.ok = FALSE]
    ELSE [c EXCEPT !.io = @ + 1, !.ok = TRUE, !.st = Apply(@, w), !.writes = Append(@, w)]

\* fs.rs save_bitmap (the free-map region is one block)
save_bitmap(c) ==
    LET bs == c.st.sb.block_size IN
    StoreWrite(c, [region |-> "fmap", id |-> 0,
                   val |-> Padded(SubSeq(c.bitmap, 1, Min(Len(c.bitmap), bs)), bs)])

\* fs.rs save_inode_table, step 1: one record per id, in id order
TableRecords(inodes, sb) ==
    [i \in 1..sb.inode_count |->
        IF i - 1 \in DOMAIN inodes THEN inodes[i - 1] ELSE Placeholder(i - 1)]

\* fs.rs save_inode_table, step 2: the stream written over the reserved blocks
save_inode_table(c) ==
    StoreWrite(c, [region |-> "itab", id |-> 0,
                   val |-> FitPrefix(TableRecords(c.inodes, c.st.sb), TableCapacity(c.st.sb))])

\* the scan taken from the top: the highest free id
find_free_inode_id_highest(inodes, sb) ==
    LET free == {i \in 2..(sb.inode_count - 1) : i \notin DOMAIN inodes} IN
    IF free = {} THEN None ELSE CHOOSE i \in free : \A j \in free : i >= j

\* fs.rs find_free_inode_id
find_free_inode_id(inodes, sb) ==
    LET free == {i \in 2..(sb.inode_count - 1) : i \notin DOMAIN inodes} IN
    IF free = {} THEN None ELSE CHOOSE i \in free : \A j \in free : i <= j

\* fs.rs save_root_directory, step 1: ".", ".." and the cached names, in the
\* order ord in which the HashMap yields them
RECURSIVE CacheEntries(_, _, _)
CacheEntries(c, ord, i) ==
    IF i > Len(ord) THEN <<>>
    ELSE (IF ord[i] \in DOMAIN c.dir_cache
            THEN << [ name |-> ord[i], inode_id |-> c.dir_cache[ord[i]],
                      kind |-> IF c.dir_cache[ord[i]] \in DOMAIN c.inodes
                                 THEN c.inodes[c.dir_cache[ord[i]]].kind ELSE "File" ] >>
            ELSE <<>>)
         \o CacheEntries(c, ord, i + 1)

\* the names of a set, one after another
RECURSIVE NameSeq(_)
NameSeq(S) ==
    IF S = {} THEN <<>>
    ELSE LET n == CHOOSE x \in S : TRUE IN <<n>> \o NameSeq(S \ {n})

\* the order in which the HashMap yields every cached name: the names of ord in
\* the order of ord, then the cached names that ord does not list (names read
\* from the store at mount)
YieldOrder(cache, ord) ==
    ord \o NameSeq(DOMAIN cache \ {ord[i] : i \in 1..Len(ord)})

DirEntries(c, ord) ==
    << [name |-> DotName, inode_id |-> c.st.sb.root_inode, kind |-> "Directory"],
       [name |-> DotDotName, inode_id |-> c.st.sb.root_inode, kind |-> "Directory"] >>
    \o CacheEntries(c, YieldOrder(c.dir_cache, ord), 1)

\* fs.rs save_root_directory, step 4: allocate until the list has needed blocks
RECURSIVE GrowBlocks(_, _, _, _)
GrowBlocks(bm, sb, blocks, needed) ==
    IF Len(blocks) >= needed THEN [ok |-> TRUE, bitmap |-> bm, blocks |-> blocks]
    ELSE LET a == allocate_block(bm, sb) IN
         IF a.id = None THEN [ok |-> FALSE, bitmap |-> a.bitmap, blocks |-> blocks]
         ELSE GrowBlocks(a.bitmap, sb, Append(blocks, a.id), needed)

\* fs.rs save_root_directory, step 5: the data written over the blocks, zeros
\* over what lies past the end of the data
RECURSIVE WriteChunks(_, _, _, _)
WriteChunks(c, blocks, i, data) ==
    IF i > Len(blocks) THEN [c EXCEPT !.ok = TRUE]
    ELSE LET bs == c.st.sb.block_size
             offset == Min((i - 1) * bs, Len(data))
             end == Min(offset + bs, Len(data))
             w == StoreWrite(c, [region |-> "data", id |-> blocks[i],
                                 val |-> Padded(SubSeq(data, offset + 1, end), bs)])
         IN IF w.ok THEN WriteChunks(w, blocks, i + 1, data) ELSE w

\* the save that writes the inode table before the bitmap
save_root_directory_table_first(c, ord) ==
    LET sb == c.st.sb
        root_id == sb.root_inode
        data == serialize_dir(DirEntries(c, ord))
        needed_blocks == (Len(data) + sb.block_size - 1) \div sb.block_size
        g == GrowBlocks(c.bitmap, sb, c.inodes[root_id].blocks, needed_blocks)
    IN IF ~g.ok THEN [c EXCEPT !.bitmap = g.bitmap, !.ok = FALSE]
       ELSE LET w == WriteChunks([c EXCEPT !.bitmap = g.bitmap], g.blocks, 1, data) IN
            IF ~w.ok THEN w
            ELSE LET t == save_inode_table(
                            [w EXCEPT !.inodes[root_id].blocks = g.blocks,
                                      !.inodes[root_id].size = Len(data),
                                      !.inodes[root_id].modified_at = Now])
                 IN IF ~t.ok THEN t ELSE save_bitmap(t)

\* fs.rs save_root_directory
save_root_directory(c, ord) ==
    LET sb == c.st.sb
        root_id == sb.root_inode
    IN Bind(serialize_dir(DirEntries(c, ord)), LAMBDA data :
       LET needed_blocks == (Len(data) + sb.block_size - 1) \div sb.block_size IN
       Bind(GrowBlocks(c.bitmap, sb, c.inodes[root_id].blocks, needed_blocks), LAMBDA g :
       IF ~g.ok THEN [c EXCEPT !.bitmap = g.bitmap, !.ok = FALSE]
       ELSE Bind(WriteChunks([c EXCEPT !.bitmap = g.bitmap], g.blocks, 1, data), LAMBDA w :
            IF ~w.ok THEN w
            ELSE Bind(save_bitmap(w), LAMBDA b :
                 IF ~b.ok THEN b
                 ELSE save_inode_table(
                        [b EXCEPT !.inodes[root_id].blocks = g.blocks,
                                  !.inodes[root_id].size = Len(data),
                                  !.inodes[root_id].modified_at = Now])))))

\* ---------------------------------------------------------------- handlers

\* a handler's result: the context it leaves and its reply to the kernel
Result(c, status, ret) == [c |-> c, status |-> status, ret |-> ret]

\* the ino of the protocol mapped to the driver's id: 1 is the mounted root
Target(ino, sb) == IF ino = 1 THEN sb.root_inode ELSE ino

\* HashMap::remove
Remove(f, k) == IF DOMAIN f \ {k} = {} THEN << >> ELSE [x \in DOMAIN f \ {k} |-> f[x]]

\* the handler's "if let Err(e) = self.save_root_directory()": the error is
\* printed and the handler goes on
Logged(c) == [c EXCEPT !.dir_err = ~c.ok]

\* create that gives up when the directory cannot be saved
create_strict(c, name, mode, ord) ==
    LET new_id == find_free_inode_id(c.inodes, c.st.sb) IN
    IF new_id = None THEN Result(c, "ENOSPC", 0)
    ELSE LET new_inode == [ id |-> new_id, kind |-> "File", size |-> 0, blocks |-> <<>>,
                            mode |-> mode % 65536, created_at |-> Now, modified_at |-> Now ]
             c1 == [c EXCEPT !.inodes = (new_id :> new_inode) @@ @,
                             !.dir_cache = (name :> new_id) @@ @]
             c2 == Logged(save_root_directory(c1, ord))
             c3 == save_inode_table(c2)
         IN IF ~c3.ok \/ c2.dir_err THEN Result(c3, "EIO", 0) ELSE Result(c3, "ok", new_id)

\* fs.rs create; name is valid UTF-8, as every name of Names is, so that
\* name.to_str() is Some
create(c, name, mode, ord) ==
    LET new_id == find_free_inode_id(c.inodes, c.st.sb) IN
    IF new_id = None THEN Result(c, "ENOSPC", 0)
    ELSE LET new_inode == [ id |-> new_id, kind |-> "File", size |-> 0, blocks |-> <<>>,
                            mode |-> mode % 65536, created_at |-> Now, modified_at |-> Now ]
             c1 == [c EXCEPT !.inodes = (new_id :> new_inode) @@ @,
                             !.dir_cache = (name :> new_id) @@ @]
             c2 == Logged(save_root_directory(c1, ord))
             c3 == save_inode_table(c2)
         IN IF ~c3.ok THEN Result(c3, "EIO", 0) ELSE Result(c3, "ok", new_id)

\* fs.rs write, step A, one turn of the loop: allocate a block, save the bitmap
\* and drop the result of the save; nothing once the list reaches the logical
\* block or once allocate_block returned None
WriteStep(s, needed_logical_idx) ==
    IF ~s.ok \/ Len(s.list) > needed_logical_idx THEN s
    ELSE LET a == allocate_block(s.c.bitmap, s.c.st.sb) IN
         IF a.id = None THEN [s EXCEPT !.ok = FALSE]
         ELSE [ c |-> save_bitmap([s.c EXCEPT !.bitmap = a.bitmap]),
                list |-> Append(s.list, a.id), ok |-> TRUE ]

\* n turns of the loop, the turns split in halves
RECURSIVE WriteTurns(_, _, _)
WriteTurns(s, needed_logical_idx, n) ==
    IF n = 0 THEN s
    ELSE IF n = 1 THEN WriteStep(s, needed_logical_idx)
    ELSE LET half == WriteTurns(s, needed_logical_idx, n \div 2) IN
         IF ~half.ok THEN half
         ELSE WriteTurns(half, needed_logical_idx, n - (n \div 2))

\* fs.rs write, step A: the loop runs until the list reaches the logical block
WriteGrow(c, list, needed_logical_idx) ==
    WriteTurns([c |-> c, list |-> list, ok |-> TRUE], needed_logical_idx,
               Max(0, needed_logical_idx + 1 - Len(list)))

\* write with the size taken to the end of the whole payload
write_fullend(c, ino, offset, data) ==
    LET target == Target(ino, c.st.sb)
        needed_logical_idx == offset \div BLOCK_SIZE
    IN IF target \notin DOMAIN c.inodes THEN Result(c, "ENOENT", 0)
       ELSE LET g == WriteGrow(c, c.inodes[target].blocks, needed_logical_idx) IN
            IF ~g.ok THEN Result(g.c, "ENOSPC", 0)
            ELSE LET c1 == [g.c EXCEPT !.inodes[target].blocks = g.list,
                                       !.inodes[target].size = Max(@, offset + Len(data))]
                 IN Result(save_inode_table(c1), "ok",
                           Min((offset % BLOCK_SIZE) + Len(data), BLOCK_SIZE)
                             - (offset % BLOCK_SIZE))

\* fs.rs write
write(c, ino, offset, data) ==
    LET target == Target(ino, c.st.sb)
        offset_in_block == offset % BLOCK_SIZE
        needed_logical_idx == offset \div BLOCK_SIZE
    IN IF target \notin DOMAIN c.inodes THEN Result(c, "ENOENT", 0)
       ELSE LET g == WriteGrow(c, c.inodes[target].blocks, needed_logical_idx) IN
            IF ~g.ok THEN Result(g.c, "ENOSPC", 0)
            ELSE LET physical_block_id == g.list[needed_logical_idx + 1]
                     block_data == IF g.c.rfail THEN Zeros(BLOCK_SIZE)
                                   ELSE read_block(g.c.st, physical_block_id)
                     end_in_block == Min(offset_in_block + Len(data), BLOCK_SIZE)
                     len_to_write == end_in_block - offset_in_block
                     new_data == [i \in 1..BLOCK_SIZE |->
                                    IF i > offset_in_block /\ i <= end_in_block
                                      THEN data[i - offset_in_block] ELSE block_data[i]]
                     w == StoreWrite([g.c EXCEPT !.rhit = g.c.rfail],
                                     [region |-> "data", id |-> physical_block_id,
                                      val |-> new_data])
                 IN IF ~w.ok THEN Result(w, "EIO", 0)
                    ELSE LET new_end == offset + len_to_write
                             c1 == [w EXCEPT !.inodes[target].blocks = g.list,
                                             !.inodes[target].size = Max(@, new_end)]
                         IN Result(save_inode_table(c1), "ok", len_to_write)

\* fs.rs rename
rename(c, parent, name, newname, ord) ==
    IF parent # 1 THEN Result(c, "ENOENT", 0)
    ELSE IF name \notin DOMAIN c.dir_cache THEN Result(c, "ENOENT", 0)
    ELSE LET inode_id == c.dir_cache[name]
             c1 == [c EXCEPT !.dir_cache = (newname :> inode_id) @@ Remove(@, name)]
         IN Result(save_root_directory(c1, ord), "ok", 0)

\* fs.rs rmdir
rmdir(c, parent, name, ord) ==
    IF parent # 1 THEN Result(c, "ENOENT", 0)
    ELSE IF name \notin DOMAIN c.dir_cache THEN Result(c, "ENOENT", 0)
    ELSE LET inode_id == c.dir_cache[name]
             c1 == [c EXCEPT !.dir_cache = Remove(@, name),
                             !.inodes = Remove(@, inode_id)]
         IN Result(save_inode_table(Logged(save_root_directory(c1, ord))), "ok", 0)

\* fs.rs unlink, step 3, the loop over the blocks lo..hi of the inode, the range
\* split in halves: a set bit is cleared, an id past the bitmap is skipped (every
\* id is past an empty bitmap)
RECURSIVE FreeRange(_, _, _, _)
FreeRange(bm, blocks, lo, hi) ==
    IF lo > hi THEN bm
    ELSE IF lo = hi
      THEN (IF HasBit(bm, blocks[lo])
              THEN [bm EXCEPT ![(blocks[lo] \div 8) + 1] = ClearBit(@, blocks[lo] % 8)]
              ELSE bm)
    ELSE LET mid == (lo + hi) \div 2
             first == FreeRange(bm, blocks, lo, mid)
         IN IF Len(first) = 0 THEN first ELSE FreeRange(first, blocks, mid + 1, hi)

\* fs.rs unlink, step 3: the bits of the inode's blocks from the i-th on cleared
FreeBlocks(bm, blocks, i) == FreeRange(bm, blocks, i, Len(blocks))

\* unlink that replies success whatever its save of the inode table returned
unlink_unchecked(c, parent, name, ord) ==
    IF parent # 1 THEN Result(c, "ENOENT", 0)
    ELSE IF name \notin DOMAIN c.dir_cache THEN Result(c, "ENOENT", 0)
    ELSE LET inode_id == c.dir_cache[name] IN
         IF inode_id \notin DOMAIN c.inodes THEN Result(c, "ENOENT", 0)
         ELSE LET c1 == [c EXCEPT !.bitmap = FreeBlocks(@, c.inodes[inode_id].blocks, 1),
                                  !.inodes = Remove(@, inode_id),
                                  !.dir_cache = Remove(@, name)]
                  c2 == Logged(save_root_directory(c1, ord))
                  c3 == save_bitmap(c2)
              IN IF ~c3.ok THEN Result(c3, "EIO", 0)
                 ELSE Result(save_inode_table(c3), "ok", 0)

\* fs.rs unlink
unlink(c, parent, name, ord) ==
    IF parent # 1 THEN Result(c, "ENOENT", 0)
    ELSE IF name \notin DOMAIN c.dir_cache THEN Result(c, "ENOENT", 0)
    ELSE LET inode_id == c.dir_cache[name] IN
         IF inode_id \notin DOMAIN c.inodes THEN Result(c, "ENOENT", 0)
         ELSE LET c1 == [c EXCEPT !.bitmap = FreeBlocks(@, c.inodes[inode_id].blocks, 1),
                                  !.inodes = Remove(@, inode_id),
                                  !.dir_cache = Remove(@, name)]
                  c2 == Logged(save_root_directory(c1, ord))
                  c3 == save_bitmap(c2)
              IN IF ~c3.ok THEN Result(c3, "EIO", 0)
                 ELSE LET c4 == save_inode_table(c3) IN
                      IF ~c4.ok THEN Result(c4, "EIO", 0) ELSE Result(c4, "ok", 0)

\* fs.rs lookup: the id bound to name under the root, None for ENOENT
lookup(fs, parent, name) ==
    IF parent # 1 THEN None
    ELSE IF name = DotName \/ name = DotDotName THEN 1
    ELSE IF name \in DOMAIN fs.dir_cache /\ fs.dir_cache[name] \in DOMAIN fs.inodes
      THEN fs.dir_cache[name]
    ELSE None

\* fs.rs read, step 2: the loop over the blocks from current_offset to end_offset
RECURSIVE ReadLoop(_, _, _, _)
ReadLoop(st, inode, current_offset, end_offset) ==
    IF current_offset >= end_offset THEN [ok |-> TRUE, data |-> << >>]
    ELSE LET logical_block_idx == current_offset \div BLOCK_SIZE
             offset_in_block == current_offset % BLOCK_SIZE
             len_to_read == Min(end_offset - current_offset, BLOCK_SIZE - offset_in_block)
             rest == ReadLoop(st, inode, current_offset + len_to_read, end_offset)
         IN IF logical_block_idx < Len(inode.blocks)
              THEN LET phys_id == inode.blocks[logical_block_idx + 1] IN
                   IF phys_id >= st.sb.total_blocks THEN [ok |-> FALSE, data |-> << >>]
                   ELSE IF ~rest.ok THEN rest
                   ELSE [ok |-> TRUE,
                         data |-> SubSeq(read_block(st, phys_id), offset_in_block + 1,
                                         offset_in_block + len_to_read) \o rest.data]
            ELSE IF ~rest.ok THEN rest
            ELSE [ok |-> TRUE, data |-> Zeros(len_to_read) \o rest.data]

\* read that does not stop at the end of the file
read_unclamped(fs, st, ino, offset, size) ==
    LET target == Target(ino, st.sb) IN
    IF target \notin DOMAIN fs.inodes THEN [status |-> "ENOENT", data |-> << >>]
    ELSE LET r == ReadLoop(st, fs.inodes[target], offset, offset + size) IN
         IF r.ok THEN [status |-> "ok", data |-> r.data]
         ELSE [status |-> "EIO", data |-> << >>]

\* fs.rs read: the status of the reply and the bytes returned
read(fs, st, ino, offset, size) ==
    LET target == Target(ino, st.sb) IN
    IF target \notin DOMAIN fs.inodes THEN [status |-> "ENOENT", data |-> << >>]
    ELSE LET inode == fs.inodes[target] IN
         IF offset >= inode.size THEN [status |-> "ok", data |-> << >>]
         ELSE LET r == ReadLoop(st, inode, offset, Min(inode.size, offset + size)) IN
              IF r.ok THEN [status |-> "ok", data |-> r.data]
              ELSE [status |-> "EIO", data |-> << >>]

\* ---------------------------------------------------------------- bounds and inputs

\* block counts of the volumes: a small one, where the disk runs full, and one
\* on which the inode table outgrows its region
SmallBlocks == 44
LargeBlocks == 700

\* handler calls per run
MaxOps == 4

\* the store write of a handler that the failing store rejects (0: none)
MaxFail == 3

\* length of the long file name
LongLen == 70

\* logical block index of the far write
FarBlock == 608

\* logical block index of the write past the first block
HighBlock == 1

\* "a.txt"
ShortName == <<97, 46, 116, 120, 116>>
LongName == [i \in 1..LongLen |-> 98]
Names == {ShortName, LongName}

\* the orders in which the HashMap can yield the names
Orders == { <<ShortName, LongName>>, <<LongName, ShortName>> }

\* the orders that differ for a cache: one order when it binds a single name
OrdersOf(cache) ==
    IF Names \subseteq DOMAIN cache THEN Orders ELSE { <<ShortName, LongName>> }

\* S_IFREG | 0o644, the mode the kernel passes to create
Modes == {33188}

Parents == {1, 2}
Inos == {2, 3}
Offsets == {0, HighBlock * BLOCK_SIZE}
Payloads == { <<1, 2, 3, 4, 5, 6, 7, 8, 9, 10>> }
FailPoints == 0..MaxFail

\* ---------------------------------------------------------------- state

VARIABLES
    superblock,   \* QrfsFilesystem.superblock
    inodes,       \* QrfsFilesystem.inodes
    bitmap,       \* QrfsFilesystem.bitmap
    dir_cache,    \* QrfsFilesystem.dir_cache
    storage,      \* the contents of the block store
    mounted,      \* QrfsFilesystem::new returned (it did not panic)
    reply,        \* the last call and its reply
    trace,        \* the store before the last call and the writes of the call
    origin,       \* how the mounted image was made
    remounted,    \* the driver was rebuilt from the store since the first mount
    steps,        \* calls made
    alloc_log     \* ids handed out by allocate_block since the last free

vars == << superblock, inodes, bitmap, dir_cache, storage, mounted, reply, trace,
           origin, remounted, steps, alloc_log >>

NoReply == [op |-> "none", status |-> "none", ret |-> 0, name |-> <<>>, ino |-> 0,
            offset |-> 0, size |-> 0, data |-> <<>>, failed |-> FALSE,
            dir_err |-> FALSE,
            stat |-> [blocks |-> 0, bfree |-> 0, files |-> 0, ffree |-> 0]]

\* the image of a volume whose inode table the driver wrote with the root as its
\* only live inode: save_inode_table writes every other id as a placeholder
ReleasedVolume(total_blocks) ==
    LET m == mkfs_with_params(total_blocks) IN
    [m EXCEPT !.itab = FitPrefix(TableRecords((0 :> Inode_new(0, "Directory")), m.sb),
                                 TableCapacity(m.sb))]

Images(formatted, released) ==
    { [origin |-> "mkfs", st |-> mkfs_with_params(tb)] : tb \in formatted }
    \cup { [origin |-> "released", st |-> ReleasedVolume(tb)] : tb \in released }

\* the driver mounted on one of the images
InitOn(images) ==
    \E im \in images :
        LET fs == QrfsFilesystem_new(im.st) IN
        /\ storage = im.st
        /\ origin = im.origin
        /\ superblock = fs.superblock
        /\ inodes = fs.inodes
        /\ bitmap = fs.bitmap
        /\ dir_cache = fs.dir_cache
        /\ mounted = fs.ok
        /\ reply = NoReply
        /\ trace = [pre |-> im.st, writes |-> <<>>]
        /\ remounted = FALSE
        /\ steps = 0
        /\ alloc_log = <<>>

Init == InitOn(Images({SmallBlocks, default_blocks}, {SmallBlocks}))

\* the context a handler starts from
Ctx(fail) ==
    [ inodes |-> inodes, bitmap |-> bitmap, dir_cache |-> dir_cache, st |-> storage,
      writes |-> <<>>, io |-> 0, fail |-> fail, ok |-> TRUE, rfail |-> FALSE,
      rhit |-> FALSE, dir_err |-> FALSE ]

\* the state a handler leaves
Commit(r, rep) ==
    /\ inodes' = r.c.inodes
    /\ bitmap' = r.c.bitmap
    /\ dir_cache' = r.c.dir_cache
    /\ storage' = r.c.st
    /\ trace' = [pre |-> storage, writes |-> r.c.writes]
    /\ reply' = [rep EXCEPT !.status = r.status, !.ret = r.ret,
                            !.failed = r.c.fail \in 1..r.c.io \/ r.c.rhit,
                            !.dir_err = r.c.dir_err]
    /\ steps' = steps + 1
    /\ UNCHANGED << superblock, mounted, origin, remounted, alloc_log >>

Ready == mounted /\ steps < MaxOps

Create(name, mode, ord, fail) ==
    /\ Ready
    /\ ord \in OrdersOf((name :> 0) @@ dir_cache)
    /\ Commit(create(Ctx(fail), name, mode, ord),
              [NoReply EXCEPT !.op = "create", !.name = name])

Write(ino, offset, data, fail) ==
    /\ Ready
    /\ Commit(write(Ctx(fail), ino, offset, data),
              [NoReply EXCEPT !.op = "write", !.ino = ino, !.offset = offset,
                              !.data = data])

Rename(parent, name, newname, ord, fail) ==
    /\ Ready
    /\ ord \in OrdersOf((newname :> 0) @@ Remove(dir_cache, name))
    /\ Commit(rename(Ctx(fail), parent, name, newname, ord),
              [NoReply EXCEPT !.op = "rename", !.name = name, !.data = newname,
                              !.ino = parent])

Rmdir(parent, name, ord, fail) ==
    /\ Ready
    /\ ord \in OrdersOf(Remove(dir_cache, name))
    /\ Commit(rmdir(Ctx(fail), parent, name, ord),
              [NoReply EXCEPT !.op = "rmdir", !.name = name, !.ino = parent])

Unlink(parent, name, ord, fail) ==
    /\ Ready
    /\ ord \in OrdersOf(Remove(dir_cache, name))
    /\ Commit(unlink(Ctx(fail), parent, name, ord),
              [NoReply EXCEPT !.op = "unlink", !.name = name, !.ino = parent])

\* the driver rebuilt from the store st
Mount(st, op) ==
    LET fs == QrfsFilesystem_new(st) IN
    /\ storage' = st
    /\ inodes' = fs.inodes
    /\ bitmap' = fs.bitmap
    /\ dir_cache' = fs.dir_cache
    /\ mounted' = fs.ok
    /\ reply' = [NoReply EXCEPT !.op = op, !.status = "ok"]
    /\ trace' = [pre |-> st, writes |-> <<>>]
    /\ remounted' = TRUE
    /\ steps' = steps + 1
    /\ UNCHANGED << superblock, origin, alloc_log >>

\* unmount and mount again
Remount ==
    /\ Ready
    /\ Mount(storage, "remount")

\* store writes of one call after which the driver can stop
MaxWrites == 8

\* the driver stops after the first k writes of its last call, and is mounted again
Crash(k) ==
    /\ Ready
    /\ k < Len(trace.writes)
    /\ Mount(ApplyAll(trace.pre, trace.writes, k), "crash")

Next ==
    \/ \E name \in Names, mode \in Modes, ord \in Orders : Create(name, mode, ord, 0)
    \/ \E ino \in Inos, offset \in Offsets, data \in Payloads : Write(ino, offset, data, 0)
    \/ \E parent \in Parents, name \in Names, newname \in Names, ord \in Orders :
          Rename(parent, name, newname, ord, 0)
    \/ \E parent \in Parents, name \in Names, ord \in Orders : Rmdir(parent, name, ord, 0)
    \/ \E parent \in Parents, name \in Names, ord \in Orders : Unlink(parent, name, ord, 0)
    \/ Remount
    \/ \E k \in 0..MaxWrites : Crash(k)

Spec == Init /\ [][Next]_vars

\* ---------------------------------------------------------------- properties of the driver

\* the data blocks whose bit is clear
FreeData(bm, sb) == {id \in sb.data_block_start..(sb.total_blocks - 1) : ~IsUsed(bm, id)}

\* the driver rebuilt from the store as it is now
Rebuilt == QrfsFilesystem_new(storage)

Mutating == {"create", "write", "rename", "unlink", "rmdir"}

\* the blocks in the block lists of the live inodes
Referenced(imap) == UNION { {imap[i].blocks[k] : k \in 1..Len(imap[i].blocks)} : i \in DOMAIN imap }

DataRegion(sb) == sb.data_block_start..(sb.total_blocks - 1)

\* the volume mkfs makes with total_blocks = 128 and inode_count = 64
FormattedDefault ==
    origin = "mkfs" /\ superblock.total_blocks = default_blocks
                    /\ superblock.inode_count = inode_count

\* C4: on the volume formatted with 128 blocks and 64 inodes and mounted,
\* create("a.txt") succeeds, and after a write of n <= block_size bytes at offset 0
\* to the file a driver rebuilt from the store finds the name and reads the bytes
C4_CreateWriteRemount ==
    FormattedDefault =>
        /\ (steps = 1 /\ reply.op = "create" /\ reply.name = ShortName)
              => reply.status = "ok"
        /\ (/\ reply.op = "write" /\ reply.status = "ok" /\ reply.offset = 0
            /\ \E name \in DOMAIN dir_cache : dir_cache[name] = reply.ino)
              => \E name \in DOMAIN dir_cache :
                    /\ dir_cache[name] = reply.ino
                    /\ lookup(Rebuilt, 1, name) = reply.ino
                    /\ read(Rebuilt, storage, reply.ino, 0, Len(reply.data))
                          = [status |-> "ok", data |-> reply.data]

\* C5: when create, write, rename, unlink or rmdir replies success, a driver
\* rebuilt from the store has the live inode map, the bitmap and the directory
\* cache of the driver in memory
C5_WriteThrough ==
    (mounted /\ reply.op \in Mutating /\ reply.status = "ok") =>
        /\ Rebuilt.inodes = inodes
        /\ Rebuilt.bitmap = bitmap
        /\ Rebuilt.dir_cache = dir_cache

\* C6: after any sequence of create, write, rename, unlink and rmdir on a freshly
\* formatted and mounted volume, the bit of a data block is set if and only if a
\* live inode lists it
C6_BitIffReferenced ==
    (origin = "mkfs" /\ mounted /\ ~remounted) =>
        \A id \in DataRegion(superblock) : IsUsed(bitmap, id) <=> id \in Referenced(inodes)

\* C7: allocate() hands out no block of a live inode, within a mount and after
\* the driver stopped between two persistence steps and was mounted again
C7_NoDoubleAllocation ==
    mounted =>
        LET a == allocate_block(bitmap, superblock) IN
        a.id # None => a.id \notin Referenced(inodes)

\* C8: unlink of a file clears the bit of every block of the file, and when the
\* file had blocks and no lower data block is free the next allocate() returns
\* the lowest of them
C8_UnlinkFreesBlocks ==
    [][ (steps' = steps + 1 /\ reply'.op = "unlink" /\ reply'.status = "ok") =>
          LET blocks == inodes[dir_cache[reply'.name]].blocks
              ids == {blocks[k] : k \in 1..Len(blocks)}
          IN /\ \A id \in ids : ~IsUsed(bitmap', id)
             /\ (ids # {} /\ \A id \in FreeData(bitmap', superblock) :
                                  \E b \in ids : b <= id)
                  => allocate_block(bitmap', superblock).id
                        = CHOOSE b \in ids : \A x \in ids : b <= x
      ]_vars

\* C9: format writes every slot but id 0 with mode 0, so the live inode map of
\* the freshly formatted and mounted volume holds the root only, and the first
\* create gets id 2
C9_FormatPlaceholders ==
    origin = "mkfs" =>
        /\ steps = 0 =>
             /\ \A k \in 2..Len(storage.itab) : storage.itab[k].mode = 0
             /\ DOMAIN inodes = {superblock.root_inode}
        /\ (steps = 1 /\ reply.op = "create") =>
             reply.status = "ok" /\ reply.ret = 2

\* C10: the inode table as save_inode_table writes it holds the inode_count
\* slots in id order within its region, and loading it yields the live inode
\* map that was in memory
C10_TableRoundTrip ==
    mounted =>
        LET saved == save_inode_table(Ctx(0)).st.itab IN
        /\ Len(saved) = superblock.inode_count
        /\ \A k \in 1..Len(saved) : saved[k].id = k - 1
        /\ LoadInodes(saved, 1, << >>) = inodes

\* ---------------------------------------------------------------- the large volume

OffsetsLarge == {0, FarBlock * BLOCK_SIZE}

\* handler calls per run on the large volume
MaxOpsLarge == 3

InitLarge == InitOn(Images({LargeBlocks}, {LargeBlocks}))

ReadyLarge == steps < MaxOpsLarge

CreateLarge(name, mode, ord, fail) == ReadyLarge /\ Create(name, mode, ord, fail)

WriteLarge(ino, offset, data, fail) == ReadyLarge /\ Write(ino, offset, data, fail)

UnlinkLarge(parent, name, ord, fail) == ReadyLarge /\ Unlink(parent, name, ord, fail)

RemountLarge == ReadyLarge /\ Remount

NextLarge ==
    \/ \E name \in Names, mode \in Modes, ord \in Orders : CreateLarge(name, mode, ord, 0)
    \/ \E ino \in Inos, offset \in OffsetsLarge, data \in Payloads :
          WriteLarge(ino, offset, data, 0)
    \/ \E name \in Names, ord \in Orders : UnlinkLarge(1, name, ord, 0)
    \/ RemountLarge

SpecLarge == InitLarge /\ [][NextLarge]_vars

\* ---------------------------------------------------------------- the failing store

\* handler calls per run on the store that rejects a write
MaxOpsFault == 3

ReadyFault == steps < MaxOpsFault

CreateFault(name, mode, ord, fail) == ReadyFault /\ Create(name, mode, ord, fail)

WriteFault(ino, offset, data, fail) == ReadyFault /\ Write(ino, offset, data, fail)

\* write on a store whose read of the touched block returns Err
WriteUnreadable(ino, offset, data) ==
    /\ ReadyFault
    /\ Ready
    /\ Commit(write([Ctx(0) EXCEPT !.rfail = TRUE], ino, offset, data),
              [NoReply EXCEPT !.op = "write", !.ino = ino, !.offset = offset,
                              !.data = data])

RenameFault(name, newname, ord, fail) == ReadyFault /\ Rename(1, name, newname, ord, fail)

RmdirFault(name, ord, fail) == ReadyFault /\ Rmdir(1, name, ord, fail)

UnlinkFault(name, ord, fail) == ReadyFault /\ Unlink(1, name, ord, fail)

\* store writes of one unlink: the directory's blocks, its bitmap and inode
\* table, then unlink's own bitmap and inode table
MaxFailUnlink == 6

UnlinkFailPoints == 0..MaxFailUnlink

\* every call with any one of its store writes rejected, or none
NextFault ==
    \/ \E name \in Names, mode \in Modes, ord \in Orders, fail \in FailPoints :
          CreateFault(name, mode, ord, fail)
    \/ \E ino \in Inos, offset \in Offsets, data \in Payloads, fail \in FailPoints :
          WriteFault(ino, offset, data, fail)
    \/ \E ino \in Inos, offset \in Offsets, data \in Payloads :
          WriteUnreadable(ino, offset, data)
    \/ \E name \in Names, newname \in Names, ord \in Orders, fail \in FailPoints :
          RenameFault(name, newname, ord, fail)

SpecFault == Init /\ [][NextFault]_vars

\* the calls that remove a name, on a store that rejects one write
NextFaultRemove ==
    \/ \E name \in Names, mode \in Modes, ord \in Orders, fail \in FailPoints :
          CreateFault(name, mode, ord, fail)
    \/ \E name \in Names, ord \in Orders, fail \in FailPoints : RmdirFault(name, ord, fail)
    \/ \E name \in Names, ord \in Orders, fail \in FailPoints : UnlinkFault(name, ord, fail)

SpecFaultRemove == Init /\ [][NextFaultRemove]_vars

\* ---------------------------------------------------------------- the allocator alone

\* block count of the volume the allocator is driven on
AllocBlocks == 50

\* allocations between two frees
MaxAllocs == 9

\* the bitmap of Len bytes whose set bits are the ids of used
BitmapOf(len, used) ==
    [i \in 1..len |-> ByteOfBits({b \in 0..7 : 8 * (i - 1) + b \in used}, 0)]

\* the bitmaps the allocator starts from: the reserved region marked as mkfs
\* marks it, marked only for block 0, or not marked at all, and any part of
\* the data region in use
AllocBitmaps(sb) ==
    LET len == Len(create_empty_bitmap(sb.total_blocks))
        data == sb.data_block_start..(sb.total_blocks - 1)
    IN { BitmapOf(len, (0..(r - 1)) \cup used) :
           r \in {0, 1, sb.data_block_start}, used \in SUBSET data }

InitAlloc ==
    /\ superblock = Superblock_new(AllocBlocks, inode_count)
    /\ bitmap \in AllocBitmaps(superblock)
    /\ inodes = << >>
    /\ dir_cache = << >>
    /\ storage = [sb |-> superblock, fmap |-> Zeros(BLOCK_SIZE), itab |-> << >>, data |-> << >>]
    /\ mounted = TRUE
    /\ reply = NoReply
    /\ trace = [pre |-> storage, writes |-> << >>]
    /\ origin = "bitmap"
    /\ remounted = FALSE
    /\ steps = 0
    /\ alloc_log = << >>

\* self.allocate_block()
Allocate ==
    LET a == allocate_block(bitmap, superblock) IN
    /\ Len(alloc_log) < MaxAllocs
    /\ bitmap' = a.bitmap
    /\ reply' = [NoReply EXCEPT !.op = "allocate", !.ret = a.id,
                                !.status = IF a.id = None THEN "None" ELSE "Some"]
    /\ alloc_log' = IF a.id = None THEN alloc_log ELSE Append(alloc_log, a.id)
    /\ UNCHANGED << superblock, inodes, dir_cache, storage, mounted, trace, origin,
                    remounted, steps >>

\* the free of unlink: the bit of one block cleared
Free(id) ==
    /\ bitmap' = FreeBlocks(bitmap, << id >>, 1)
    /\ reply' = [NoReply EXCEPT !.op = "free", !.ret = id, !.status = "ok"]
    /\ alloc_log' = << >>
    /\ UNCHANGED << superblock, inodes, dir_cache, storage, mounted, trace, origin,
                    remounted, steps >>

NextAlloc ==
    \/ Allocate
    \/ \E id \in superblock.data_block_start..(superblock.total_blocks - 1) : Free(id)

SpecAlloc == InitAlloc /\ [][NextAlloc]_vars

\* C1: in a run of allocate() calls with no free in between, no two calls
\* return the same block id
C1_NoRepeat ==
    \A i \in 1..Len(alloc_log) : \A j \in 1..Len(alloc_log) :
        i # j => alloc_log[i] # alloc_log[j]

C1_Witness == Len(alloc_log) >= 3 /\ reply.op = "allocate"

\* C2: allocate() returns no id below data_block_start and none at or above
\* total_blocks, whatever the bitmap, the bits of the reserved region clear included
C2_InDataRegion ==
    (reply.op = "allocate" /\ reply.ret # None) =>
        /\ reply.ret >= superblock.data_block_start
        /\ reply.ret < superblock.total_blocks

C2_Witness ==
    /\ reply.op = "allocate"
    /\ reply.ret # None
    /\ \A id \in 0..(superblock.data_block_start - 1) : ~IsUsed(bitmap, id)

\* C3: allocate() returns the lowest id of the data region whose bit is clear and
\* sets that bit and no other; with no clear bit in the region it returns None and
\* leaves the bitmap as it was
C3_LowestClear ==
    [][ reply'.op = "allocate" =>
          LET free == FreeData(bitmap, superblock) IN
          IF free = {}
            THEN reply'.ret = None /\ bitmap' = bitmap
            ELSE /\ reply'.ret \in free
                 /\ \A id \in free : reply'.ret <= id
                 /\ Len(bitmap') = Len(bitmap)
                 /\ \A id \in 0..(8 * Len(bitmap) - 1) :
                       IsUsed(bitmap', id) <=> (IsUsed(bitmap, id) \/ id = reply'.ret)
      ]_vars

C3_Witness ==
    /\ reply.op = "allocate"
    /\ reply.ret = None
    /\ alloc_log # << >>
    /\ FreeData(bitmap, superblock) = {}


\* ---------------------------------------------------------------- the bytes of a file

\* bytes before the end of a block at which the straddling write starts
Straddle == 2

\* the size the uploaded inode claims, in blocks and bytes past the last block
SparseBlocks == 2
SparseExtra == 3
SparseSize == SparseBlocks * BLOCK_SIZE + SparseExtra

\* handler calls per run
MaxOpsIO == 3

\* server.rs upload_block: a volume whose blocks were uploaded one by one; its
\* inode 2 has one block and a size that reaches past it
SparseVolume(total_blocks) ==
    LET m == mkfs_with_params(total_blocks)
        b == m.sb.data_block_start
        file == [Inode_new(2, "File") EXCEPT !.size = SparseSize, !.blocks = <<b>>]
        table == (0 :> Inode_new(0, "Directory")) @@ (2 :> file)
    IN [m EXCEPT !.itab = FitPrefix(TableRecords(table, m.sb), TableCapacity(m.sb)),
                 !.fmap = [i \in 1..Len(m.fmap) |->
                             IF i = (b \div 8) + 1 THEN SetBit(m.fmap[i], b % 8)
                             ELSE m.fmap[i]],
                 !.data = (b :> [i \in 1..BLOCK_SIZE |-> 1 + (i % 5)])]

InitIO ==
    InitOn(Images({default_blocks}, {})
           \cup {[origin |-> "upload", st |-> SparseVolume(SmallBlocks)]})

OffsetsIO == {0, BLOCK_SIZE - Straddle, BLOCK_SIZE}
PayloadsIO == { <<>>, <<1, 2, 3, 4, 5>> }
SizesIO == {0, 4, BLOCK_SIZE + 2, SparseSize}
ReadOffsetsIO == {0, BLOCK_SIZE - Straddle, BLOCK_SIZE + 1, SparseSize}
InosIO == {1, 2, 70}

ReadyIO == steps < MaxOpsIO

\* fs.rs read as a call: the reply holds the bytes returned
ReadIO(ino, offset, size) ==
    LET r == read([inodes |-> inodes], storage, ino, offset, size) IN
    /\ mounted
    /\ ReadyIO
    /\ reply' = [NoReply EXCEPT !.op = "read", !.status = r.status, !.ino = ino,
                                !.offset = offset, !.size = size, !.data = r.data]
    /\ trace' = [pre |-> storage, writes |-> <<>>]
    /\ steps' = steps + 1
    /\ UNCHANGED << superblock, inodes, bitmap, dir_cache, storage, mounted, origin,
                    remounted, alloc_log >>

NextIO ==
    \/ ReadyIO /\ \E ino \in InosIO, offset \in OffsetsIO, data \in PayloadsIO :
                     Write(ino, offset, data, 0)
    \/ \E ino \in InosIO, offset \in ReadOffsetsIO, size \in SizesIO :
          ReadIO(ino, offset, size)

SpecIO == InitIO /\ [][NextIO]_vars

\* the write of the last step replied success
WroteOk == reply'.op = "write" /\ reply'.status = "ok" /\ steps' = steps + 1

\* the inode the last call addressed
Addressed == Target(reply.ino, superblock)

\* C11 as stated: after a successful write(id, offset, bytes) the block list
\* covers every logical block up to the one that holds offset+len-1, and the
\* size is max(previous size, offset+len), len being the length of bytes
C11_WriteCoversPayload ==
    [][WroteOk =>
        LET t == Target(reply'.ino, superblock)
            end == reply'.offset + Len(reply'.data)
        IN /\ (Len(reply'.data) > 0 =>
                  Len(inodes'[t].blocks) >= ((end - 1) \div BLOCK_SIZE) + 1)
           /\ inodes'[t].size = Max(inodes[t].size, end)]_vars

\* C11 amended: a successful write stores and reports
\* n = min(len, BLOCK_SIZE - offset mod BLOCK_SIZE) bytes; afterwards the block
\* list covers every logical block up to the one that holds offset, and the
\* size is max(previous size, offset+n)
C11_WriteCoversWritten ==
    [][WroteOk =>
        LET t == Target(reply'.ino, superblock)
            n == Min(Len(reply'.data), BLOCK_SIZE - (reply'.offset % BLOCK_SIZE))
        IN /\ reply'.ret = n
           /\ Len(inodes'[t].blocks) >= (reply'.offset \div BLOCK_SIZE) + 1
           /\ inodes'[t].size = Max(inodes[t].size, reply'.offset + n)]_vars

\* a write that crossed the end of a block succeeded, short, and set the size
C11_Witness ==
    /\ reply.op = "write" /\ reply.status = "ok"
    /\ reply.ret > 0 /\ reply.ret < Len(reply.data)
    /\ inodes[Addressed].size = reply.offset + reply.ret

\* the byte of a file at a position: the stored byte of the owning block, zero
\* past the block list
ByteAt(inode, pos) ==
    IF pos \div BLOCK_SIZE < Len(inode.blocks)
      THEN read_block(storage, inode.blocks[(pos \div BLOCK_SIZE) + 1])[(pos % BLOCK_SIZE) + 1]
      ELSE 0

\* C12: read(id, offset, len) on a known inode returns exactly
\* min(len, size - offset) bytes, none when offset >= size; each is the stored
\* byte of the owning block, or zero past the block list, and never an error
C12_ReadReturnsStored ==
    (reply.op = "read" /\ Addressed \in DOMAIN inodes) =>
        LET inode == inodes[Addressed]
            n == Max(0, Min(reply.size, inode.size - reply.offset))
        IN /\ reply.status = "ok"
           /\ Len(reply.data) = n
           /\ \A i \in 1..n : reply.data[i] = ByteAt(inode, reply.offset + i - 1)

\* a read that started in a stored block and ended in the sparse tail
C12_Witness ==
    /\ reply.op = "read" /\ reply.status = "ok"
    /\ Addressed \in DOMAIN inodes
    /\ reply.offset \div BLOCK_SIZE < Len(inodes[Addressed].blocks)
    /\ (reply.offset + Len(reply.data) - 1) \div BLOCK_SIZE >= Len(inodes[Addressed].blocks)
    /\ \E i \in 1..Len(reply.data) : reply.data[i] # 0

\* ---------------------------------------------------------------- properties of the calls

\* the last step was a call of the handler op
Called(op) == reply'.op = op /\ steps' = steps + 1

\* the ids create can assign that the inode map does not hold
FreeIds == {i \in 2..(superblock.inode_count - 1) : i \notin DOMAIN inodes}

C14_WriteFailureIsError ==
    (reply.op = "write" /\ reply.failed) => reply.status # "ok"

\* the last store write of the call wrote the inode table of the map imap
TableSaved(tr, imap) ==
    /\ tr.writes # <<>>
    /\ tr.writes[Len(tr.writes)].region = "itab"
    /\ tr.writes[Len(tr.writes)].val
          = FitPrefix(TableRecords(imap, tr.pre.sb), TableCapacity(tr.pre.sb))

SameBlocks(blocks, st1, st2) ==
    \A i \in 1..Len(blocks) : read_block(st1, blocks[i]) = read_block(st2, blocks[i])

\* C16: rename(old, new) with old bound in the directory cache to a live inode
\* binds new to that inode and removes old, leaves the inode records other than
\* the root's and the file's blocks as they were, and saves the directory: the
\* driver rebuilt from the store finds the inode under new and nothing under old
C16_RenamePersists ==
    [][(Called("rename") /\ reply'.ino = 1 /\ reply'.name # reply'.data
          /\ reply'.name \in DOMAIN dir_cache
          /\ dir_cache[reply'.name] \in DOMAIN inodes) =>
        LET id == dir_cache[reply'.name]
            root == superblock.root_inode
            fs == QrfsFilesystem_new(storage')
        IN /\ reply'.status = "ok"
           /\ reply'.data \in DOMAIN dir_cache' /\ dir_cache'[reply'.data] = id
           /\ reply'.name \notin DOMAIN dir_cache'
           /\ DOMAIN inodes' = DOMAIN inodes
           /\ \A i \in DOMAIN inodes \ {root} : inodes'[i] = inodes[i]
           /\ SameBlocks(inodes[id].blocks, storage, storage')
           /\ lookup(fs, 1, reply'.data) = id
           /\ lookup(fs, 1, reply'.name) = None]_vars

\* C17: rmdir(name) with name bound in the directory cache to a live inode
\* removes the entry and the inode, saves the directory and the inode table so
\* that the driver rebuilt from the store has the same cache and inode map, and
\* leaves the bitmap as it was: the blocks of the removed inode stay marked
\* used and allocate_block does not return any of them
C17_RmdirKeepsBlocks ==
    [][(Called("rmdir") /\ reply'.ino = 1
          /\ reply'.name \in DOMAIN dir_cache
          /\ dir_cache[reply'.name] \in DOMAIN inodes) =>
        LET id == dir_cache[reply'.name]
            blocks == inodes[id].blocks
            fs == QrfsFilesystem_new(storage')
        IN /\ reply'.status = "ok"
           /\ reply'.name \notin DOMAIN dir_cache'
           /\ id \notin DOMAIN inodes'
           /\ fs.dir_cache = dir_cache'
           /\ fs.inodes = inodes'
           /\ bitmap' = bitmap
           /\ \A i \in 1..Len(blocks) :
                 /\ IsUsed(bitmap', blocks[i])
                 /\ allocate_block(bitmap', superblock).id # blocks[i]]_vars

\* ---------------------------------------------------------------- the queries

\* open that checks the kind as opendir does
open_checked(fs, ino) ==
    LET target == Target(ino, fs.superblock) IN
    IF target \notin DOMAIN fs.inodes THEN "ENOENT"
    ELSE IF fs.inodes[target].kind = "File" THEN "ok" ELSE "ENOTDIR"

\* fs.rs open: the status of the reply
open(fs, ino) ==
    LET target == Target(ino, fs.superblock) IN
    IF target \in DOMAIN fs.inodes THEN "ok" ELSE "ENOENT"

\* fs.rs opendir: the status of the reply
opendir(fs, ino) ==
    LET target == Target(ino, fs.superblock) IN
    IF target \in DOMAIN fs.inodes
      THEN (IF fs.inodes[target].kind = "Directory" THEN "ok" ELSE "ENOTDIR")
      ELSE "ENOENT"

\* fs.rs statfs, the inner loop: the clear bits of a byte from bit on, the loop
\* left at the first bit that is no block of the volume
RECURSIVE FreeInByte(_, _, _, _)
FreeInByte(byte, bite_idx, bit, total_blocks) ==
    IF bit >= 8 \/ bite_idx * 8 + bit >= total_blocks THEN 0
    ELSE (IF BitOf(byte, bit) THEN 0 ELSE 1)
         + FreeInByte(byte, bite_idx, bit + 1, total_blocks)

\* fs.rs statfs, the outer loop over the bytes lo..hi of the bitmap, the range
\* split in halves
RECURSIVE FreeInBytes(_, _, _, _)
FreeInBytes(bm, lo, hi, total_blocks) ==
    IF lo > hi THEN 0
    ELSE IF lo = hi THEN FreeInByte(bm[lo], lo - 1, 0, total_blocks)
    ELSE LET mid == (lo + hi) \div 2
             first == FreeInBytes(bm, lo, mid, total_blocks)
         IN IF first < 0 THEN first ELSE first + FreeInBytes(bm, mid + 1, hi, total_blocks)

\* a - b in u64; None stands for the underflow, a panic or a value near 2^64
\* according to the build
SubU64(a, b) == IF a >= b THEN a - b ELSE None

\* statfs that counts every bit of the bitmap's bytes
statfs_allbits(fs) ==
    [ blocks |-> fs.superblock.total_blocks,
      bfree |-> FreeInBytes(fs.bitmap, 1, Len(fs.bitmap), 8 * Len(fs.bitmap)),
      files |-> fs.superblock.inode_count,
      ffree |-> SubU64(fs.superblock.inode_count, Cardinality(DOMAIN fs.inodes)) ]

\* fs.rs statfs: the fields of the reply
statfs(fs) ==
    [ blocks |-> fs.superblock.total_blocks,
      bfree |-> FreeInBytes(fs.bitmap, 1, Len(fs.bitmap), fs.superblock.total_blocks),
      files |-> fs.superblock.inode_count,
      ffree |-> SubU64(fs.superblock.inode_count, Cardinality(DOMAIN fs.inodes)) ]

\* handler calls per run
MaxOpsQuery == 4

\* an id no inode has
UnknownIno == 70

InosQuery == {1, 2, UnknownIno}

\* the driver as the handlers of the queries see it
Driver == [superblock |-> superblock, inodes |-> inodes, bitmap |-> bitmap,
           dir_cache |-> dir_cache]

ReadyQuery == steps < MaxOpsQuery

\* a call that changes nothing in the driver or the store
Query(rep) ==
    /\ mounted
    /\ ReadyQuery
    /\ reply' = rep
    /\ trace' = [pre |-> storage, writes |-> <<>>]
    /\ steps' = steps + 1
    /\ UNCHANGED << superblock, inodes, bitmap, dir_cache, storage, mounted, origin,
                    remounted, alloc_log >>

Open(ino) ==
    Query([NoReply EXCEPT !.op = "open", !.ino = ino, !.status = open(Driver, ino)])

Opendir(ino) ==
    Query([NoReply EXCEPT !.op = "opendir", !.ino = ino, !.status = opendir(Driver, ino)])

Statfs ==
    Query([NoReply EXCEPT !.op = "statfs", !.status = "ok", !.stat = statfs(Driver)])

NextQuery ==
    \/ ReadyQuery /\ \E name \in Names, mode \in Modes, ord \in Orders :
                        Create(name, mode, ord, 0)
    \/ ReadyQuery /\ \E ino \in Inos, offset \in Offsets, data \in Payloads :
                        Write(ino, offset, data, 0)
    \/ ReadyQuery /\ \E name \in Names, ord \in Orders : Unlink(1, name, ord, 0)
    \/ \E ino \in InosQuery : Open(ino)
    \/ \E ino \in InosQuery : Opendir(ino)
    \/ Statfs

SpecQuery == Init /\ [][NextQuery]_vars

\* C18 as stated: open succeeds only on a known inode of kind File, opendir
\* only on a known inode of kind Directory; an unknown id is ENOENT and a known
\* inode of the other kind is ENOTDIR
C18_OpenChecksKind ==
    /\ reply.op = "open" =>
          IF Addressed \notin DOMAIN inodes THEN reply.status = "ENOENT"
          ELSE IF inodes[Addressed].kind = "File" THEN reply.status = "ok"
          ELSE reply.status = "ENOTDIR"
    /\ reply.op = "opendir" =>
          IF Addressed \notin DOMAIN inodes THEN reply.status = "ENOENT"
          ELSE IF inodes[Addressed].kind = "Directory" THEN reply.status = "ok"
          ELSE reply.status = "ENOTDIR"

\* C18 amended: opendir succeeds only on a known inode of kind Directory and is
\* ENOTDIR on a known File; open succeeds on every known inode, whatever its
\* kind; both are ENOENT on an unknown id
C18_OnlyOpendirChecksKind ==
    /\ reply.op = "open" =>
          IF Addressed \notin DOMAIN inodes THEN reply.status = "ENOENT"
          ELSE reply.status = "ok"
    /\ reply.op = "opendir" =>
          IF Addressed \notin DOMAIN inodes THEN reply.status = "ENOENT"
          ELSE IF inodes[Addressed].kind = "Directory" THEN reply.status = "ok"
          ELSE reply.status = "ENOTDIR"

\* open succeeded on the root directory
C18_Witness ==
    /\ reply.op = "open" /\ reply.status = "ok"
    /\ Addressed \in DOMAIN inodes
    /\ inodes[Addressed].kind = "Directory"

\* the blocks of the volume whose bit is in the bitmap and clear
ClearBits == {b \in 0..(superblock.total_blocks - 1) : HasBit(bitmap, b) /\ ~IsUsed(bitmap, b)}

\* C19: statfs reports as free blocks the number of clear bitmap bits of block
\* ids below total_blocks and as free inodes inode_count minus the number of
\* live inodes; neither exceeds its total nor is negative
C19_StatfsCounts ==
    reply.op = "statfs" =>
        /\ reply.stat.blocks = superblock.total_blocks
        /\ reply.stat.files = superblock.inode_count
        /\ reply.stat.bfree = Cardinality(ClearBits)
        /\ reply.stat.ffree = superblock.inode_count - Cardinality(DOMAIN inodes)
        /\ reply.stat.bfree \in 0..reply.stat.blocks
        /\ reply.stat.ffree \in 0..reply.stat.files

\* statfs on a volume of 44 blocks, whose last bitmap byte has four bits that are
\* no blocks, with a file that holds a block and free inodes left
C19_Witness ==
    /\ reply.op = "statfs"
    /\ superblock.total_blocks % 8 # 0
    /\ reply.stat.bfree > 0 /\ reply.stat.bfree < superblock.total_blocks - superblock.data_block_start
    /\ reply.stat.ffree > 0

\* ---------------------------------------------------------------- the block store alone

\* blocks and bytes per block of the stores, and the bytes the payloads are made
\* of: an ASCII byte and a byte that no UTF-8 text contains
StoreBlocks == 2
StoreBlockSize == 2
StoreByte == 7
StoreRawByte == 255

\* InMemoryBlockStorage::new
InMemoryBlockStorage_new(total_blocks, block_size) ==
    [ block_size |-> block_size, total_blocks |-> total_blocks,
      data |-> Zeros(total_blocks * block_size) ]

\* QrStorageManager::new: no image exists yet
QrStorageManager_new(block_size, total_blocks) ==
    [ block_size |-> block_size, total_blocks |-> total_blocks, images |-> << >> ]

\* storage.rs check_range of both stores: None for Err, otherwise the offset of
\* the block in the Vec of the store in memory
check_range(s, id) == IF id >= s.total_blocks THEN None ELSE id * s.block_size

\* InMemoryBlockStorage read_block
InMemory_read_block(s, id) ==
    LET offset == check_range(s, id) IN
    IF offset = None THEN [ok |-> FALSE, data |-> << >>]
    ELSE [ok |-> TRUE, data |-> SubSeq(s.data, offset + 1, offset + s.block_size)]

\* write_block without the check of the payload's length: the bytes run on into
\* the Vec past the block
InMemory_write_block_spill(s, id, data) ==
    LET offset == check_range(s, id) IN
    IF offset = None THEN [ok |-> FALSE, s |-> s]
    ELSE [ok |-> TRUE,
          s |-> [s EXCEPT !.data =
                   [i \in 1..Len(s.data) |->
                      IF i > offset /\ i <= offset + Len(data) THEN data[i - offset]
                      ELSE IF i > offset /\ i <= offset + s.block_size THEN 0
                      ELSE s.data[i]]]]

\* InMemoryBlockStorage write_block: the length is checked, then the range; the
\* payload is copied and the rest of the block zeroed
InMemory_write_block(s, id, data) ==
    IF Len(data) > s.block_size THEN [ok |-> FALSE, s |-> s]
    ELSE LET offset == check_range(s, id) IN
         IF offset = None THEN [ok |-> FALSE, s |-> s]
         ELSE [ok |-> TRUE,
               s |-> [s EXCEPT !.data =
                        [i \in 1..Len(s.data) |->
                           IF i > offset /\ i <= offset + Len(data) THEN data[i - offset]
                           ELSE IF i > offset /\ i <= offset + s.block_size THEN 0
                           ELSE s.data[i]]]]

\* a continuation byte of UTF-8
IsCont(b, i) == i <= Len(b) /\ b[i] \in 128..191

\* the length of the UTF-8 sequence that starts at byte i of b, 0 if there is none
Utf8Len(b, i) ==
    LET c == b[i]
        second(lo, hi) == i + 1 <= Len(b) /\ b[i + 1] \in lo..hi IN
    CASE c \in 0..127 -> 1
      [] c \in 194..223 -> IF IsCont(b, i + 1) THEN 2 ELSE 0
      [] c \in 224..239 ->
           IF /\ second(IF c = 224 THEN 160 ELSE 128, IF c = 237 THEN 159 ELSE 191)
              /\ IsCont(b, i + 2)
           THEN 3 ELSE 0
      [] c \in 240..244 ->
           IF /\ second(IF c = 240 THEN 144 ELSE 128, IF c = 244 THEN 143 ELSE 191)
              /\ IsCont(b, i + 2) /\ IsCont(b, i + 3)
           THEN 4 ELSE 0
      [] OTHER -> 0

\* whether the bytes from i on are UTF-8 text
RECURSIVE IsUtf8From(_, _)
IsUtf8From(b, i) ==
    IF i > Len(b) THEN TRUE
    ELSE LET n == Utf8Len(b, i) IN n > 0 /\ IsUtf8From(b, i + n)

\* the content of a decoded image is a String: decode returns Err for bytes
\* that are not UTF-8 text
IsUtf8(b) == IsUtf8From(b, 1)

\* QrStorageManager read_block: zeros when the image does not exist, otherwise
\* the decoded content, a String, cut or zero-padded to the block size
Qr_read_block(s, id) ==
    IF check_range(s, id) = None THEN [ok |-> FALSE, data |-> << >>]
    ELSE IF id \notin DOMAIN s.images THEN [ok |-> TRUE, data |-> Zeros(s.block_size)]
    ELSE IF ~IsUtf8(s.images[id]) THEN [ok |-> FALSE, data |-> << >>]
    ELSE [ok |-> TRUE,
          data |-> Padded(SubSeq(s.images[id], 1, Min(Len(s.images[id]), s.block_size)),
                          s.block_size)]

\* QrStorageManager write_block: the range is checked, then the length; the
\* image encodes the payload as given
Qr_write_block(s, id, data) ==
    IF check_range(s, id) = None THEN [ok |-> FALSE, s |-> s]
    ELSE IF Len(data) > s.block_size THEN [ok |-> FALSE, s |-> s]
    ELSE [ok |-> TRUE, s |-> [s EXCEPT !.images = (id :> data) @@ @]]

\* the ids and payloads of the calls: ids in and past the range, payloads up to
\* one byte longer than a block, of text, and one byte that is not text
StoreIds == 0..(StoreBlocks + 1)
StorePayloads ==
    { [i \in 1..n |-> StoreByte] : n \in 0..(StoreBlockSize + 1) }
      \cup { << StoreRawByte >> }

InitStore ==
    /\ superblock = Superblock_new(StoreBlocks, inode_count)
    /\ bitmap = << >>
    /\ inodes = << >>
    /\ dir_cache = << >>
    /\ storage = [ mem |-> InMemoryBlockStorage_new(StoreBlocks, StoreBlockSize),
                   qr |-> QrStorageManager_new(StoreBlockSize, StoreBlocks) ]
    /\ mounted = FALSE
    /\ reply = NoReply
    /\ trace = [pre |-> storage, writes |-> << >>]
    /\ origin = "store"
    /\ remounted = FALSE
    /\ steps = 0
    /\ alloc_log = << >>

\* a call of the store: the reply holds the id, the payload of a write or the
\* bytes of a read, and Ok or Err
StoreCall(op, id, data, ok, st) ==
    /\ storage' = st
    /\ reply' = [NoReply EXCEPT !.op = op, !.ino = id, !.data = data,
                                !.status = IF ok THEN "Ok" ELSE "Err"]
    /\ trace' = [pre |-> storage, writes |-> << >>]
    /\ UNCHANGED << superblock, inodes, bitmap, dir_cache, mounted, origin, remounted,
                    steps, alloc_log >>

MemRead(id) ==
    LET r == InMemory_read_block(storage.mem, id) IN
    StoreCall("mem.read_block", id, r.data, r.ok, storage)

MemWrite(id, data) ==
    LET r == InMemory_write_block(storage.mem, id, data) IN
    StoreCall("mem.write_block", id, data, r.ok, [storage EXCEPT !.mem = r.s])

QrRead(id) ==
    LET r == Qr_read_block(storage.qr, id) IN
    StoreCall("qr.read_block", id, r.data, r.ok, storage)

QrWrite(id, data) ==
    LET r == Qr_write_block(storage.qr, id, data) IN
    StoreCall("qr.write_block", id, data, r.ok, [storage EXCEPT !.qr = r.s])

NextStore ==
    \/ \E id \in StoreIds : MemRead(id)
    \/ \E id \in StoreIds, data \in StorePayloads : MemWrite(id, data)
    \/ \E id \in StoreIds : QrRead(id)
    \/ \E id \in StoreIds, data \in StorePayloads : QrWrite(id, data)

SpecStore == InitStore /\ [][NextStore]_vars

StoreReads == {"mem.read_block", "qr.read_block"}
StoreWrites == {"mem.write_block", "qr.write_block"}

\* the bytes every block of both stores reads as
Contents(st) ==
    [id \in 0..(StoreBlocks - 1) |->
        << InMemory_read_block(st.mem, id).data, Qr_read_block(st.qr, id).data >>]

ReadOf(st, op, id) ==
    IF op = "mem.write_block" THEN InMemory_read_block(st.mem, id)
    ELSE Qr_read_block(st.qr, id)

\* C21: read_block(id) with id < total_blocks returns block_size bytes: zeros
\* before any write, after a successful write_block(id, data) the payload
\* followed by zeros, and what it returned before after a write to another id
C21_ReadReturnsLastWrite ==
    /\ (origin = "store" /\ reply.op = "none") =>
          \A id \in 0..(StoreBlocks - 1) :
             /\ InMemory_read_block(storage.mem, id) = [ok |-> TRUE, data |-> Zeros(StoreBlockSize)]
             /\ Qr_read_block(storage.qr, id) = [ok |-> TRUE, data |-> Zeros(StoreBlockSize)]
    /\ (reply.op \in StoreWrites /\ reply.status = "Ok") =>
          ReadOf(storage, reply.op, reply.ino) =
             [ok |-> TRUE, data |-> Padded(reply.data, StoreBlockSize)]
    /\ (reply.op \in StoreWrites) =>
          \A id \in 0..(StoreBlocks - 1) \ {reply.ino} :
             ReadOf(storage, reply.op, id) = ReadOf(trace.pre, reply.op, id)

\* C22: every persisted unit of a store holds exactly block_size bytes, a
\* shorter payload being zero-padded by write_block before it is persisted
C22_PersistedUnitsAreFull ==
    origin = "store" =>
       /\ Len(storage.mem.data) = StoreBlocks * StoreBlockSize
       /\ \A id \in DOMAIN storage.qr.images : Len(storage.qr.images[id]) = StoreBlockSize

\* ---------------------------------------------------------------- the layout alone

\* fsck.rs check_disk_layout: whether it returns Ok
check_disk_layout(sb) ==
    /\ sb.free_map_start # 0
    /\ ~(sb.inode_table_start < sb.free_map_start + sb.free_map_blocks)
    /\ ~(sb.data_block_start < sb.inode_table_start + sb.inode_table_blocks)
    /\ ~(sb.data_block_start >= sb.total_blocks)

\* the volumes laid out: up to MaxLayoutBlocks blocks, the volumes around the
\* number of bits of one block, and a volume of HugeBlocks blocks
MaxLayoutBlocks == 9
HugeBlocks == 2000000000

\* the largest block count a bitmap is made for
MaxBitmapBlocks == 17

\* calls in a run
MaxOpsLayout == 2

\* the inode counts: up to MaxLayoutInodes, and ManyInodes, whose records take
\* more bytes than a u32 counts
MaxLayoutInodes == 3
ManyInodes == 53687090

LayoutBlocks ==
    0..MaxLayoutBlocks \cup {BLOCK_SIZE * 8, BLOCK_SIZE * 8 + 1, HugeBlocks}
LayoutInodes == 0..MaxLayoutInodes \cup {inode_count, ManyInodes - 1, ManyInodes}

\* the builds: with overflow checks (debug) and without (release)
Builds == {"debug", "release"}

InitLayout ==
    /\ superblock = Superblock_new(default_blocks, inode_count)
    /\ bitmap = << >>
    /\ inodes = << >>
    /\ dir_cache = << >>
    /\ storage = [sb |-> superblock, fmap |-> Zeros(BLOCK_SIZE), itab |-> << >>, data |-> << >>]
    /\ mounted = FALSE
    /\ reply = NoReply
    /\ trace = [pre |-> storage, writes |-> << >>]
    /\ origin = "layout"
    /\ remounted = FALSE
    /\ steps = 0
    /\ alloc_log = << >>

\* Superblock::new(total_blocks, inode_count) in a build: the reply holds the
\* two inputs in offset and size and the build in name
New(total_blocks, icount, build) ==
    LET panics == build = "debug" /\ Superblock_new_panics(icount) IN
    /\ steps < MaxOpsLayout
    /\ steps' = steps + 1
    /\ superblock' = IF panics THEN superblock ELSE Superblock_new(total_blocks, icount)
    /\ reply' = [NoReply EXCEPT !.op = "Superblock::new", !.offset = total_blocks,
                                !.size = icount, !.name = build,
                                !.status = IF panics THEN "panic" ELSE "ok"]
    /\ UNCHANGED << inodes, bitmap, dir_cache, storage, mounted, trace, origin,
                    remounted, alloc_log >>

\* create_empty_bitmap(total_blocks)
EmptyBitmap(total_blocks) ==
    /\ steps < MaxOpsLayout
    /\ steps' = steps + 1
    /\ bitmap' = create_empty_bitmap(total_blocks)
    /\ reply' = [NoReply EXCEPT !.op = "create_empty_bitmap", !.size = total_blocks,
                                !.status = "ok"]
    /\ UNCHANGED << superblock, inodes, dir_cache, storage, mounted, trace, origin,
                    remounted, alloc_log >>

NextLayout ==
    \/ \E total_blocks \in LayoutBlocks, icount \in LayoutInodes, build \in Builds :
          New(total_blocks, icount, build)
    \/ \E total_blocks \in 0..MaxBitmapBlocks : EmptyBitmap(total_blocks)

SpecLayout == InitLayout /\ [][NextLayout]_vars

\* the blocks the reserved regions take for icount inodes fit in total_blocks:
\* the superblock, one free-map block and ceil(icount * 80 / 128) table blocks
FitsReserved(total_blocks, icount) == 2 + (5 * icount + 7) \div 8 < total_blocks

\* C23: for every (total_blocks, inode_count) whose reserved regions fit,
\* Superblock::new yields a layout with free_map_start >= 1, the inode table
\* right after the free map, the data right after the inode table and before
\* total_blocks, which passes check_disk_layout
C23_LayoutIsConsistent ==
    (reply.op = "Superblock::new" /\ FitsReserved(reply.offset, reply.size)) =>
       /\ reply.status = "ok"
       /\ superblock.total_blocks = reply.offset
       /\ superblock.inode_count = reply.size
       /\ superblock.free_map_start >= 1
       /\ superblock.inode_table_start = superblock.free_map_start + superblock.free_map_blocks
       /\ superblock.data_block_start =
             superblock.inode_table_start + superblock.inode_table_blocks
       /\ superblock.data_block_start < superblock.total_blocks
       /\ check_disk_layout(superblock)

\* C24: the free-map region of the layout holds one bit for every block id:
\* free_map_blocks * block_size >= ceil(total_blocks / 8) for every total_blocks
C24_FreeMapHoldsEveryBit ==
    (reply.op = "Superblock::new" /\ reply.status = "ok") =>
       superblock.free_map_blocks * superblock.block_size
          >= (superblock.total_blocks + 7) \div 8

\* ceil(n / 8): the least count of bytes with a bit for each of n blocks
CeilDiv8(n) == CHOOSE k \in 0..n : 8 * k >= n /\ (k = 0 \/ 8 * (k - 1) < n)

\* C25: create_empty_bitmap(n) returns ceil(n / 8) bytes, all of them zero
\* (0 -> 0, 1 -> 1, 8 -> 1, 9 -> 2)
C25_EmptyBitmapLength ==
    reply.op = "create_empty_bitmap" =>
       /\ Len(bitmap) = CeilDiv8(reply.size)
       /\ \A i \in 1..Len(bitmap) : bitmap[i] = 0
       /\ (reply.size = 0 => Len(bitmap) = 0)
       /\ (reply.size \in {1, 8} => Len(bitmap) = 1)
       /\ (reply.size = 9 => Len(bitmap) = 2)

\* the bitmap of nine blocks was made
C25_Witness == reply.op = "create_empty_bitmap" /\ reply.size = 9 /\ Len(bitmap) = 2

\* ---------------------------------------------------------------- the codec alone

(* The text of an image is a sequence of ASCII codes. Rendering a text as an   *)
(* image and detecting it again are the library's: an image is modelled by     *)
(* the text it carries.                                                        *)

\* the alphabet of base64 STANDARD: the character of a sextet, '=' for padding
B64Char(s) ==
    IF s < 26 THEN 65 + s
    ELSE IF s < 52 THEN 97 + (s - 26)
    ELSE IF s < 62 THEN 48 + (s - 52)
    ELSE IF s = 62 THEN 43 ELSE 47
PadChar == 61

\* the sextet of a character, None for a character outside the alphabet
B64Val(c) == IF \E s \in 0..63 : B64Char(s) = c THEN CHOOSE s \in 0..63 : B64Char(s) = c ELSE None

\* general_purpose::STANDARD.encode
RECURSIVE Base64Encode(_)
Base64Encode(b) ==
    IF Len(b) = 0 THEN << >>
    ELSE IF Len(b) = 1 THEN
       << B64Char(b[1] \div 4), B64Char((b[1] % 4) * 16), PadChar, PadChar >>
    ELSE IF Len(b) = 2 THEN
       << B64Char(b[1] \div 4), B64Char((b[1] % 4) * 16 + b[2] \div 16),
          B64Char((b[2] % 16) * 4), PadChar >>
    ELSE << B64Char(b[1] \div 4), B64Char((b[1] % 4) * 16 + b[2] \div 16),
            B64Char((b[2] % 16) * 4 + b[3] \div 64), B64Char(b[3] % 64) >>
           \o Base64Encode(SubSeq(b, 4, Len(b)))

\* general_purpose::STANDARD.decode: groups of four characters, canonical
\* padding in the last group only, no set bit left over
RECURSIVE Base64Decode(_)
Base64Decode(t) ==
    IF Len(t) = 0 THEN [ok |-> TRUE, data |-> << >>]
    ELSE IF Len(t) < 4 THEN [ok |-> FALSE, data |-> << >>]
    ELSE
      LET v == [i \in 1..4 |-> B64Val(t[i])]
          last == Len(t) = 4
          b1 == v[1] * 4 + v[2] \div 16
          b2 == (v[2] % 16) * 16 + v[3] \div 4
          b3 == (v[3] % 4) * 64 + v[4]
      IN IF v[1] = None \/ v[2] = None THEN [ok |-> FALSE, data |-> << >>]
         ELSE IF last /\ t[3] = PadChar /\ t[4] = PadChar THEN
            [ok |-> v[2] % 16 = 0, data |-> IF v[2] % 16 = 0 THEN << b1 >> ELSE << >>]
         ELSE IF v[3] = None THEN [ok |-> FALSE, data |-> << >>]
         ELSE IF last /\ t[4] = PadChar THEN
            [ok |-> v[3] % 4 = 0, data |-> IF v[3] % 4 = 0 THEN << b1, b2 >> ELSE << >>]
         ELSE IF v[4] = None THEN [ok |-> FALSE, data |-> << >>]
         ELSE LET rest == Base64Decode(SubSeq(t, 5, Len(t))) IN
              IF rest.ok THEN [ok |-> TRUE, data |-> << b1, b2, b3 >> \o rest.data]
              ELSE rest

\* qr.rs encode_block_to_qr: the image of the base64 text of the bytes
encode_block_to_qr(data) == [code |-> TRUE, text |-> Base64Encode(data)]

\* the image of a block in the envelope {"block_id":N,"data":"<base64>"}, N one digit
EnvelopeImage(id, data) ==
    [code |-> TRUE,
     text |-> << 123, 34, 98, 108, 111, 99, 107, 95, 105, 100, 34, 58, 48 + id,
                 44, 34, 100, 97, 116, 97, 34, 58, 34 >>
              \o Base64Encode(data) \o << 34, 125 >>]

\* qr.rs decode_qr_to_block: Err when no code is detected, otherwise the
\* base64 STANDARD decoding of the whole text
decode_qr_to_block(img) ==
    IF ~img.code THEN [ok |-> FALSE, data |-> << >>] ELSE Base64Decode(img.text)

\* the bytes of the blocks encoded, and their greatest length
CodecBytes == {0, StoreByte, StoreRawByte}
MaxCodecLen == 4
CodecPayloads == UNION { [1..n -> CodecBytes] : n \in 0..MaxCodecLen }

\* DynamicImage::new_luma8: an image with no code
BlankImage == [code |-> FALSE, text |-> << >>]

InitCodec ==
    /\ superblock = Superblock_new(default_blocks, inode_count)
    /\ bitmap = << >>
    /\ inodes = << >>
    /\ dir_cache = << >>
    /\ storage = [image |-> BlankImage, of |-> << >>, format |-> "none"]
    /\ mounted = FALSE
    /\ reply = NoReply
    /\ trace = [pre |-> storage, writes |-> << >>]
    /\ origin = "codec"
    /\ remounted = FALSE
    /\ steps = 0
    /\ alloc_log = << >>

\* an image comes to hold the bytes b in a format
Encoded(b, format, img) ==
    /\ storage' = [image |-> img, of |-> b, format |-> format]
    /\ reply' = [NoReply EXCEPT !.op = "encode", !.data = b, !.status = "Ok"]
    /\ UNCHANGED << superblock, inodes, bitmap, dir_cache, mounted, trace, origin,
                    remounted, steps, alloc_log >>

\* decode_qr_to_block(&image)
Decode ==
    LET r == decode_qr_to_block(storage.image) IN
    /\ reply' = [NoReply EXCEPT !.op = "decode", !.data = r.data,
                                !.status = IF r.ok THEN "Ok" ELSE "Err"]
    /\ UNCHANGED << superblock, inodes, bitmap, dir_cache, storage, mounted, trace,
                    origin, remounted, steps, alloc_log >>

NextCodec ==
    \/ \E b \in CodecPayloads : Encoded(b, "bare", encode_block_to_qr(b))
    \/ \E b \in CodecPayloads : Encoded(b, "json", EnvelopeImage(0, b))
    \/ Decode

SpecCodec == InitCodec /\ [][NextCodec]_vars

\* C26: decoding the image of a byte string gives the byte string back,
\* whether the image holds the bare base64 text or the JSON envelope
C26_CodecRoundTrip ==
    (reply.op = "decode" /\ storage.format \in {"bare", "json"}) =>
       reply.status = "Ok" /\ reply.data = storage.of

\* ---------------------------------------------------------------- the checker

\* disk.rs QRFS_MAGIC, 0x5152_4653
QRFS_MAGIC == 1364346451

QRFS_VERSION == 1

\* bincode::serialize(&superblock): magic, version and the nine fields, a
\* little-endian u32 each; mkfs pads the block to the block size
serialize_superblock(sb) ==
    U32(QRFS_MAGIC) \o U32(QRFS_VERSION) \o U32(sb.block_size) \o U32(sb.total_blocks)
      \o U32(sb.free_map_start) \o U32(sb.free_map_blocks) \o U32(sb.inode_table_start)
      \o U32(sb.inode_count) \o U32(sb.inode_table_blocks) \o U32(sb.root_inode)
      \o U32(sb.data_block_start)

\* the stores the checker can read a volume through: the images of
\* QrStorageManager, or a store that returns the bytes written
Views == {"image", "exact"}

\* storage.read_block(0) as the checker calls it: the image of block 0 decodes
\* to a String, so its payload must be UTF-8 text
ReadSuperblock(st, view) ==
    LET data == Padded(serialize_superblock(st.sb), BLOCK_SIZE) IN
    [ok |-> view = "exact" \/ IsUtf8(data), data |-> data]

\* fsck.rs check_superblock: "ok" with the superblock, or the error
check_superblock(st, view) ==
    LET blk == ReadSuperblock(st, view)
        f(k) == ReadInt(blk.data, 4 * k, 4).v IN
    IF ~blk.ok THEN [r |-> "read", sb |-> st.sb]
    ELSE IF f(0) # QRFS_MAGIC THEN [r |-> "magic", sb |-> st.sb]
    ELSE IF f(1) # QRFS_VERSION THEN [r |-> "version", sb |-> st.sb]
    ELSE IF f(2) \notin {128, 256, 512} THEN [r |-> "block_size", sb |-> st.sb]
    ELSE [r |-> "ok",
          sb |-> [ block_size |-> f(2), total_blocks |-> f(3), free_map_start |-> f(4),
                   free_map_blocks |-> f(5), inode_table_start |-> f(6),
                   inode_count |-> f(7), inode_table_blocks |-> f(8),
                   root_inode |-> f(9), data_block_start |-> f(10) ]]

\* fsck.rs load_bitmap: the free-map region cut to ceil(total_blocks / 8) bytes
fsck_load_bitmap(st, sb) ==
    SubSeq(st.fmap, 1, Min(Len(st.fmap), (sb.total_blocks + 7) \div 8))

\* fsck.rs load_inodes: the records of the table whose mode is not 0, in the
\* order of the table
fsck_load_inodes(st, sb) ==
    SelectSeq(SubSeq(st.itab, 1, Min(Len(st.itab), sb.inode_count)),
              LAMBDA inode : inode.mode # 0)

\* fsck.rs validate_inode: TRUE for Ok
validate_inode(inode, sb) ==
    /\ inode.id < sb.inode_count
    /\ \A k \in 1..Len(inode.blocks) :
          inode.blocks[k] >= sb.data_block_start /\ inode.blocks[k] < sb.total_blocks
    /\ inode.created_at # 0
    /\ inode.modified_at >= inode.created_at

\* fsck.rs check_root_inode: the first loaded inode with the root's id must be
\* a Directory
check_root_inode(loaded, sb) ==
    LET at == {i \in 1..Len(loaded) : loaded[i].id = sb.root_inode} IN
    IF at = {} THEN "not found"
    ELSE LET root == loaded[CHOOSE i \in at : \A j \in at : i <= j] IN
         IF root.kind = "Directory" THEN "ok" ELSE "not a directory"

\* the blocks in the block lists of the inodes the checker loaded
Assigned(loaded) ==
    UNION { {loaded[i].blocks[k] : k \in 1..Len(loaded[i].blocks)} : i \in 1..Len(loaded) }

\* the scan taken from block 0
check_bitmap_coherence_from_zero(bm, loaded, sb) ==
    LET assigned_blocks == Assigned(loaded)
        scanned == {id \in 0..(sb.total_blocks - 1) : id \div 8 < Len(bm)}
    IN [ orphan_blocks |-> {id \in scanned : IsUsed(bm, id) /\ id \notin assigned_blocks},
         missing_blocks |-> {id \in scanned : ~IsUsed(bm, id) /\ id \in assigned_blocks} ]

\* fsck.rs check_bitmap_coherence: the scan of the data region stops at the
\* first id whose byte lies past the end of the bitmap
check_bitmap_coherence(bm, loaded, sb) ==
    Bind(Assigned(loaded), LAMBDA assigned_blocks :
      LET scanned == {id \in sb.data_block_start..(sb.total_blocks - 1) : id \div 8 < Len(bm)}
      IN [ orphan_blocks |-> {id \in scanned : IsUsed(bm, id) /\ id \notin assigned_blocks},
           missing_blocks |-> {id \in scanned : ~IsUsed(bm, id) /\ id \in assigned_blocks} ])

NoCoherence == [orphan_blocks |-> {}, missing_blocks |-> {}]

\* fsck.rs run, a return through '?': main prints the error and exits with 1
Stopped(step, invalid) ==
    [step |-> step, exit |-> 1, invalid |-> invalid, coherence |-> NoCoherence]

\* fsck.rs run, the summary: exit(2) when has_errors, otherwise Ok
Summary(invalid, coherence) ==
    LET has_errors == invalid # {} \/ coherence.missing_blocks # {} IN
    [ step |-> IF has_errors THEN "errors"
               ELSE IF coherence.orphan_blocks # {} THEN "warnings" ELSE "clean",
      exit |-> IF has_errors THEN 2 ELSE 0,
      invalid |-> invalid,
      coherence |-> coherence ]

\* the run that takes an orphan for an error
run_orphans_critical(st, view) ==
    LET s == check_superblock(st, view)
        sb == s.sb
        loaded == fsck_load_inodes(st, sb)
        invalid == {i \in 1..Len(loaded) : ~validate_inode(loaded[i], sb)}
        coherence == check_bitmap_coherence(fsck_load_bitmap(st, sb), loaded, sb)
        has_errors == invalid # {} \/ coherence.missing_blocks # {}
                         \/ coherence.orphan_blocks # {}
    IN IF s.r # "ok" \/ ~check_disk_layout(sb) \/ check_root_inode(loaded, sb) # "ok"
         THEN [step |-> "superblock", exit |-> 1, invalid |-> {}, coherence |-> NoCoherence]
       ELSE [ step |-> IF has_errors THEN "errors" ELSE "clean",
              exit |-> IF has_errors THEN 2 ELSE 0,
              invalid |-> invalid,
              coherence |-> coherence ]

\* fsck.rs run and main: the step the run ended at, the findings and the exit code
run(st, view) ==
    Bind(check_superblock(st, view), LAMBDA s :
      IF s.r # "ok" THEN Stopped("superblock", {})
      ELSE IF ~check_disk_layout(s.sb) THEN Stopped("layout", {})
      ELSE
        Bind(fsck_load_bitmap(st, s.sb), LAMBDA bm :
        Bind(fsck_load_inodes(st, s.sb), LAMBDA loaded :
        Bind({i \in 1..Len(loaded) : ~validate_inode(loaded[i], s.sb)}, LAMBDA invalid :
          IF check_root_inode(loaded, s.sb) # "ok" THEN Stopped("root", invalid)
          ELSE Summary(invalid, check_bitmap_coherence(bm, loaded, s.sb))))))

\* the block count for which the reserved regions fill the whole volume
TightBlocks == 42

\* handler calls before the volume is checked
MaxOpsCheck == 3

InitCheck == InitOn(Images({TightBlocks, SmallBlocks, default_blocks}, {SmallBlocks}))

ReadyCheck == steps < MaxOpsCheck

\* the bits of the free-map block that the damage can flip: a reserved block, the
\* first two blocks of the data region, and the bit after the last block
FlipIds(sb) == {0, sb.data_block_start, sb.data_block_start + 1, sb.total_blocks}

Damages == {"block_size", "data_block_start", "created_at", "kind", "mode"}

\* the stored volume with the bit of block id flipped in the free map
Flipped(st, id) ==
    [st EXCEPT !.fmap[(id \div 8) + 1] =
        IF BitOf(@, id % 8) THEN ClearBit(@, id % 8) ELSE SetBit(@, id % 8)]

\* the stored volume with one field of the superblock or of the root's record
\* overwritten
Damaged(st, what) ==
    CASE what = "block_size" -> [st EXCEPT !.sb.block_size = BLOCK_SIZE + 1]
      [] what = "data_block_start" -> [st EXCEPT !.sb.data_block_start = st.sb.total_blocks]
      [] what = "created_at" -> [st EXCEPT !.itab[1].created_at = 0]
      [] what = "kind" -> [st EXCEPT !.itab[1].kind = "File"]
      [] what = "mode" -> [st EXCEPT !.itab[1].mode = 0]

\* the volume is taken out of the driver's hands and changed by hand
Offline(st, how) ==
    /\ origin \in {"mkfs", "released"}
    /\ storage' = st
    /\ origin' = how
    /\ mounted' = FALSE
    /\ trace' = [pre |-> storage, writes |-> <<>>]
    /\ reply' = NoReply
    /\ UNCHANGED << superblock, inodes, bitmap, dir_cache, remounted, steps, alloc_log >>

FlipBit(id) == id \in FlipIds(storage.sb) /\ Offline(Flipped(storage, id), "flipped")

Damage(what) == Offline(Damaged(storage, what), "damaged")

\* fsck.qrfs <qrfolder/>: the checker reads the volume and changes nothing
Fsck(view) ==
    LET r == run(storage, view) IN
    /\ reply' = Bind(r, LAMBDA res :
                   [NoReply EXCEPT !.op = "fsck", !.status = res.step, !.ret = res.exit,
                                   !.failed = (view = "image"),
                                   !.stat = [invalid |-> res.invalid,
                                             orphan_blocks |-> res.coherence.orphan_blocks,
                                             missing_blocks |-> res.coherence.missing_blocks]])
    /\ UNCHANGED << superblock, inodes, bitmap, dir_cache, storage, mounted, trace,
                    origin, remounted, steps, alloc_log >>

NextCheck ==
    \/ ReadyCheck /\ \E name \in Names, mode \in Modes, ord \in Orders :
                        Create(name, mode, ord, 0)
    \/ ReadyCheck /\ \E ino \in Inos, offset \in Offsets, data \in Payloads :
                        Write(ino, offset, data, 0)
    \/ ReadyCheck /\ \E name \in Names, ord \in Orders : Unlink(1, name, ord, 0)
    \/ \E id \in 0..default_blocks : FlipBit(id)
    \/ \E what \in Damages : Damage(what)
    \/ \E view \in Views : Fsck(view)

SpecCheck == InitCheck /\ [][NextCheck]_vars

\* the checker went through its six steps
FsckRan == reply.op = "fsck" /\ reply.status \in {"errors", "warnings", "clean"}

\* the bits of the stored free map that belong to the volume's blocks
StoredBitmap(st) == fsck_load_bitmap(st, st.sb)

\* the blocks listed by the stored records whose mode is not 0
LiveRefs(st) ==
    UNION { {st.itab[i].blocks[k] : k \in 1..Len(st.itab[i].blocks)} :
              i \in {j \in 1..Len(st.itab) : st.itab[j].mode # 0} }

OrphansOf(st) ==
    {id \in DataRegion(st.sb) : IsUsed(StoredBitmap(st), id) /\ id \notin LiveRefs(st)}

MissingOf(st) ==
    {id \in DataRegion(st.sb) :
        HasBit(StoredBitmap(st), id) /\ ~IsUsed(StoredBitmap(st), id) /\ id \in LiveRefs(st)}

\* the cross-check reports what the definitions of orphan and missing say
CrossCheckExact ==
    FsckRan => /\ reply.stat.orphan_blocks = OrphansOf(storage)
               /\ reply.stat.missing_blocks = MissingOf(storage)

\* the bit of the free-map block that differs from the volume before the damage
FlippedId ==
    CHOOSE id \in 0..(8 * Len(storage.fmap) - 1) :
        IsUsed(storage.fmap, id) # IsUsed(trace.pre.fmap, id)

\* one bit of a volume without findings was flipped, and the checker ran
FlippedConsistent ==
    /\ FsckRan
    /\ origin = "flipped"
    /\ OrphansOf(trace.pre) = {} /\ MissingOf(trace.pre) = {}

\* one finding, an orphan for a bit that was set and a missing block for a bit
\* that was cleared
OneFinding ==
    IF IsUsed(storage.fmap, FlippedId)
      THEN reply.stat.orphan_blocks = {FlippedId} /\ reply.stat.missing_blocks = {}
      ELSE reply.stat.missing_blocks = {FlippedId} /\ reply.stat.orphan_blocks = {}

CriticalFinding(st, view) ==
    LET s == check_superblock(st, view)
        loaded == fsck_load_inodes(st, s.sb) IN
    \/ s.r # "ok"
    \/ ~check_disk_layout(s.sb)
    \/ \E i \in 1..Len(loaded) : ~validate_inode(loaded[i], s.sb)
    \/ check_root_inode(loaded, s.sb) # "ok"
    \/ MissingOf(st) # {}

ViewOf(rep) == IF rep.failed THEN "image" ELSE "exact"

C29_FreshVolumeIsClean ==
    (reply.op = "fsck" /\ origin = "mkfs" /\ steps = 0) =>
        /\ reply.status = "clean" /\ reply.ret = 0
        /\ reply.stat.invalid = {}
        /\ reply.stat.orphan_blocks = {} /\ reply.stat.missing_blocks = {}

\* ---------------------------------------------------------------- the upload service

(* server.rs upload_auto. The workers of the HTTP server run the handler       *)
(* concurrently on one AppState, whose storage is a Mutex<QrStorageManager>.   *)
(* A request is the content as serde_json reads it: the block_id of an         *)
(* envelope (None when the content is not an envelope) and the base64 text.    *)
(* trace holds the holder of the mutex and, for every request, the handler's   *)
(* position: "idle", "wait" (before lock()), "locked", "found" (the scan found  *)
(* a path that does not exist), "done".                                        *)

\* general_purpose::URL_SAFE_NO_PAD.decode: '-' and '_' for '+' and '/', and no
\* padding characters
UrlSafeNoPadDecode(t) ==
    IF \E i \in 1..Len(t) : t[i] \in {43, 47, PadChar} THEN [ok |-> FALSE, data |-> << >>]
    ELSE IF Len(t) % 4 = 1 THEN [ok |-> FALSE, data |-> << >>]
    ELSE LET std == [i \in 1..Len(t) |-> IF t[i] = 45 THEN 43 ELSE IF t[i] = 95 THEN 47 ELSE t[i]]
             pad == IF Len(t) % 4 = 2 THEN << PadChar, PadChar >>
                    ELSE IF Len(t) % 4 = 3 THEN << PadChar >> ELSE << >>
         IN Base64Decode(std \o pad)

\* upload_auto, the fallback: STANDARD first, then URL_SAFE_NO_PAD
DecodeContent(text) ==
    IF Base64Decode(text).ok THEN Base64Decode(text) ELSE UrlSafeNoPadDecode(text)

\* the handlers that run at once
MaxUploads == 3

\* blocks and bytes per block of the server's store (main: 400 and 128)
UploadBlocks == 3
UploadBlockSize == 2

Uploads == 1..MaxUploads

\* the contents posted: an envelope for block 0, and bare texts: padded,
\* unpadded, of a payload longer than a block, and one that is not base64
UploadRequests ==
    { [block_id |-> 0, text |-> Base64Encode(<< StoreByte >>)],
      [block_id |-> None, text |-> Base64Encode(<< StoreByte >>)],
      [block_id |-> None, text |-> SubSeq(Base64Encode(<< StoreByte >>), 1, 2)],
      [block_id |-> None, text |-> Base64Encode(Zeros(UploadBlockSize + 1))],
      [block_id |-> None, text |-> << 33 >>] }

IdleTask == [pc |-> "idle", scan |-> FALSE, bytes |-> << >>, block_id |-> 0, status |-> "none"]

InitUpload ==
    /\ superblock = Superblock_new(UploadBlocks, inode_count)
    /\ bitmap = << >>
    /\ inodes = << >>
    /\ dir_cache = << >>
    /\ \E written \in {{}, {0}} :
          storage = [QrStorageManager_new(UploadBlockSize, UploadBlocks)
                       EXCEPT !.images = [id \in written |-> << >>]]
    /\ mounted = FALSE
    /\ reply = NoReply
    /\ trace = [holder |-> None, task |-> [u \in Uploads |-> IdleTask]]
    /\ origin = "upload"
    /\ remounted = FALSE
    /\ steps = 0
    /\ alloc_log = << >>

\* a step of the handler of request u; the guard returned by lock() is dropped
\* when the handler returns
Handler(u, task, holder, st) ==
    /\ trace' = [holder |-> holder, task |-> [trace.task EXCEPT ![u] = task]]
    /\ storage' = st
    /\ alloc_log' = IF task.pc = "done" /\ task.scan /\ task.status = "ok"
                      THEN Append(alloc_log, task.block_id) ELSE alloc_log
    /\ UNCHANGED << superblock, inodes, bitmap, dir_cache, mounted, reply, origin,
                    remounted, steps >>

\* the response of the handler
Respond(u, status, block_id) ==
    [trace.task[u] EXCEPT !.pc = "done", !.status = status, !.block_id = block_id]

\* a lock that does not wait
MutexFree_always(t) == TRUE

\* Mutex::lock returns when no handler holds the guard
MutexFree(t) == t.holder = None

\* the holder after the handler of u returned
Released(u) == IF trace.holder = u THEN None ELSE trace.holder

\* upload_auto up to lock(): the content is parsed and decoded
Post(u, req) ==
    LET envelope == req.block_id # None
        d == IF envelope THEN Base64Decode(req.text) ELSE DecodeContent(req.text) IN
    /\ trace.task[u].pc = "idle"
    /\ Handler(u,
               IF d.ok THEN [pc |-> "wait", scan |-> ~envelope, bytes |-> d.data,
                             block_id |-> IF envelope THEN req.block_id ELSE 0,
                             status |-> "none"]
               ELSE Respond(u, "error", 0),
               trace.holder, storage)

\* state.storage.lock().unwrap()
Lock(u) ==
    /\ trace.task[u].pc = "wait"
    /\ MutexFree(trace)
    /\ Handler(u, [trace.task[u] EXCEPT !.pc = "locked"], u, storage)

\* the loop over 0..total_blocks up to the first path that does not exist
Search(u) ==
    LET unwritten == {id \in 0..(storage.total_blocks - 1) : id \notin DOMAIN storage.images} IN
    /\ trace.task[u].pc = "locked"
    /\ trace.task[u].scan
    /\ IF unwritten = {}
         THEN Handler(u, Respond(u, "error", 0), Released(u), storage)
         ELSE Handler(u, [trace.task[u] EXCEPT !.pc = "found",
                             !.block_id = CHOOSE id \in unwritten : \A j \in unwritten : id <= j],
                      trace.holder, storage)

\* storage.write_block(block_id, &bytes) and the response
Save(u) ==
    LET t == trace.task[u]
        r == Qr_write_block(storage, t.block_id, t.bytes) IN
    /\ t.pc = "found" \/ (t.pc = "locked" /\ ~t.scan)
    /\ Handler(u, Respond(u, IF r.ok THEN "ok" ELSE "error", IF r.ok THEN t.block_id ELSE 0),
               Released(u), r.s)

NextUpload ==
    \/ \E u \in Uploads, req \in UploadRequests : Post(u, req)
    \/ \E u \in Uploads : Lock(u)
    \/ \E u \in Uploads : Search(u)
    \/ \E u \in Uploads : Save(u)

SpecUpload == InitUpload /\ [][NextUpload]_vars

\* the lowest block id that has no image
LowestUnwritten(st, id) ==
    /\ id \in 0..(st.total_blocks - 1)
    /\ id \notin DOMAIN st.images
    /\ \A j \in 0..(id - 1) : j \in DOMAIN st.images

\* C30: the search for the first unwritten id and the write to it happen under
\* one hold of the mutex: one handler at a time is past lock(), the id a
\* scan found is still the lowest unwritten id when it is written, and no two
\* scan uploads are given the same id
C30_ScanUploadsSerialized ==
    LET task == trace.task
        given == {u \in Uploads : task[u].pc = "done" /\ task[u].scan /\ task[u].status = "ok"}
    IN /\ Cardinality({u \in Uploads : task[u].pc \in {"locked", "found"}}) <= 1
       /\ \A u \in Uploads : task[u].pc = "found" => LowestUnwritten(storage, task[u].block_id)
       /\ \A u, v \in given : u # v => task[u].block_id # task[v].block_id
       /\ \A i, j \in 1..Len(alloc_log) : i < j => alloc_log[i] < alloc_log[j]

C30_Witness ==
    \E u, v, w \in Uploads :
        /\ trace.task[u].pc = "done" /\ trace.task[u].scan /\ trace.task[u].status = "ok"
        /\ trace.task[v].pc = "found" /\ trace.task[v].block_id = trace.task[u].block_id + 1
        /\ trace.task[w].pc = "wait" /\ trace.task[w].scan

\* ---------------------------------------------------------------- the order of the writes

\* the calls that start their persistence with save_root_directory
DirSaving == {"create", "rename", "rmdir", "unlink"}

\* the block list of the root in a stored inode table
RootBlocks(st) ==
    LET loaded == LoadInodes(st.itab, 1, << >>) IN
    IF st.sb.root_inode \in DOMAIN loaded THEN loaded[st.sb.root_inode].blocks ELSE << >>

\* the blocks of a list as a set
BlockSet(blocks) == {blocks[k] : k \in 1..Len(blocks)}

\* the number of writes to data blocks at the head of a list of writes
RECURSIVE LeadingData(_, _)
LeadingData(ws, i) ==
    IF i > Len(ws) \/ ws[i].region # "data" THEN 0 ELSE 1 + LeadingData(ws, i + 1)

\* C31: a directory save writes all the directory's data blocks, then the
\* bitmap, then the inode table (a write the store rejects ends the save); an
\* inode table that lists a block newly allocated to the root is written only
\* after the bitmap with the block's bit
C31_DirectorySaveOrder ==
    (reply.op \in DirSaving /\ steps > 0) =>
        LET ws == trace.writes
            k == LeadingData(ws, 1)
            old == BlockSet(RootBlocks(trace.pre))
        IN /\ \A i \in 1..Len(ws) : ws[i].region = "data" => i <= k
           /\ \A i \in 1..k : \A j \in 1..k : i # j => ws[i].id # ws[j].id
           /\ (k > 0 /\ ~reply.failed) =>
                /\ Len(ws) > k => ws[k + 1].region = "fmap"
                /\ Len(ws) > k + 1 => ws[k + 2].region = "itab"
           /\ \A i \in 1..Len(ws) : ws[i].region = "itab" =>
                LET before == ApplyAll(trace.pre, ws, i - 1)
                    root == [itab |-> ws[i].val, sb |-> trace.pre.sb]
                IN \A b \in BlockSet(RootBlocks(root)) \ old : IsUsed(before.fmap, b)

\* a save that took a new block for the directory and wrote all three regions
C31_Witness ==
    /\ reply.op \in DirSaving /\ steps > 0
    /\ LeadingData(trace.writes, 1) >= 2
    /\ Len(trace.writes) >= LeadingData(trace.writes, 1) + 2
    /\ BlockSet(RootBlocks(storage)) \ BlockSet(RootBlocks(trace.pre)) # {}

\* ---------------------------------------------------------------- unlink's saves

\* create, unlink on a store that rejects any one of unlink's writes or none, and
\* the driver stopping part-way through a call and being mounted again
NextUnlink ==
    \/ \E name \in Names, mode \in Modes, ord \in Orders : Create(name, mode, ord, 0)
    \/ \E name \in Names, ord \in Orders, fail \in UnlinkFailPoints :
          Unlink(1, name, ord, fail)
    \/ \E k \in 0..MaxWrites : Crash(k)

SpecUnlink == Init /\ [][NextUnlink]_vars

\* unlink's own two saves went through: the bitmap and then the inode table are
\* the last two writes of the call, after the inode table of the directory save
\* when that save went through (dir_saved)
OwnSaved(tr, bm, imap, dir_saved) ==
    LET n == Len(tr.writes) IN
    /\ n >= 2
    /\ Cardinality({i \in 1..n : tr.writes[i].region = "itab"}) = IF dir_saved THEN 2 ELSE 1
    /\ tr.writes[n - 1].region = "fmap"
    /\ tr.writes[n - 1].val
          = Padded(SubSeq(bm, 1, Min(Len(bm), tr.pre.sb.block_size)), tr.pre.sb.block_size)
    /\ TableSaved(tr, imap)

\* the writes of an unlink: the directory's blocks, bitmap and inode table in
\* that order and all of them unless the save failed, then unlink's own bitmap
\* and inode table; success exactly when the own saves went through, EIO otherwise
UnlinkSaves ==
    LET ws == trace'.writes
        k == LeadingData(ws, 1)
    IN /\ reply'.status \in {"ok", "EIO"}
       /\ \A i \in 1..Len(ws) : ws[i].region = "data" => i <= k
       /\ \A i \in 1..Len(ws) : ws[i].region = "itab" => i > 1 /\ ws[i - 1].region = "fmap"
       /\ ~reply'.dir_err =>
             /\ k >= 1
             /\ Len(ws) >= k + 2
             /\ ws[k + 1].region = "fmap"
             /\ ws[k + 2].region = "itab"
             /\ QrfsFilesystem_new(ApplyAll(trace'.pre, ws, k + 2)).dir_cache = dir_cache'
       /\ reply'.status = "ok" <=> OwnSaved(trace', bitmap', inodes', ~reply'.dir_err)

StoppedInSave ==
    /\ reply'.op = "crash"
    /\ reply.op \in DirSaving
    /\ \E k \in 1..(LeadingData(trace.writes, 1) + 1) :
          /\ k < Len(trace.writes)
          /\ storage' = ApplyAll(trace.pre, trace.writes, k)

\* the entries that were on the store before the save and are in the set being saved
KeptEntries ==
    LET before == QrfsFilesystem_new(trace.pre).dir_cache IN
    {n \in DOMAIN before \cap DOMAIN dir_cache : before[n] = dir_cache[n]}

\* C33: when the driver stops between the persistence steps of a directory save,
\* the remounted directory cache still holds every entry that was persisted
\* before the save and is part of the set being saved
C33_StoppedSaveKeepsEntries ==
    [][StoppedInSave =>
          \A n \in KeptEntries :
              mounted' /\ n \in DOMAIN dir_cache' /\ dir_cache'[n] = dir_cache[n]]_vars

\* ---------------------------------------------------------------- loading the root

\* handler calls before the volume is taken offline
MaxOpsLoad == 2

\* the sizes written into the root's record: empty, one byte, and one byte more
\* than one and than two blocks hold
RootSizes == {0, 1, BLOCK_SIZE + 1, 2 * BLOCK_SIZE + 1}

\* the stored volume with the size of the root's record set and its block list
\* cut to its first n blocks
Resized(st, size, n) ==
    [st EXCEPT !.itab[1].size = size,
               !.itab[1].blocks = SubSeq(@, 1, Min(n, Len(@)))]

CreateLoad(name, mode, ord) ==
    /\ steps < MaxOpsLoad
    /\ origin \in {"mkfs", "released"}
    /\ Create(name, mode, ord, 0)

Resize(size, n) == Offline(Resized(storage, size, n), "resized")

\* QrfsFilesystem::new on the volume: the reply holds what load_directory of the
\* root returned and the number of its entries
LoadRoot ==
    LET fs == QrfsFilesystem_new(storage)
        dir == load_directory(fs.inodes, storage, storage.sb.root_inode)
    IN /\ origin = "resized"
       /\ reply.op # "load_directory"
       /\ inodes' = fs.inodes
       /\ bitmap' = fs.bitmap
       /\ dir_cache' = fs.dir_cache
       /\ mounted' = fs.ok
       /\ reply' = [NoReply EXCEPT !.op = "load_directory", !.status = dir.r,
                                   !.ret = Len(dir.entries)]
       /\ UNCHANGED << superblock, storage, trace, origin, remounted, steps, alloc_log >>

NextLoad ==
    \/ \E name \in Names, mode \in Modes, ord \in Orders : CreateLoad(name, mode, ord)
    \/ \E size \in RootSizes, n \in 0..2 : Resize(size, n)
    \/ LoadRoot

SpecLoad == Init /\ [][NextLoad]_vars

\* the root's record on the store
StoredRoot == LoadInodes(storage.itab, 1, << >>)[storage.sb.root_inode]

\* C34: loading the root directory returns an empty entry list, and neither an
\* error nor a crash, whenever the root inode's size is 0, it owns no blocks, or
\* its blocks hold fewer bytes than its recorded size
C34_EmptyOrUndersizedLoadsEmpty ==
    (reply.op = "load_directory"
       /\ \/ StoredRoot.size = 0
          \/ StoredRoot.blocks = << >>
          \/ StoredRoot.size > BLOCK_SIZE * Len(StoredRoot.blocks))
    => reply.status = "ok" /\ reply.ret = 0 /\ mounted /\ dir_cache = << >>

\* ---------------------------------------------------------------- block ids

\* every block id of every live inode lies in the data region
BlocksInDataRegion(imap, sb) == Referenced(imap) \subseteq DataRegion(sb)

\* the bits of the blocks before data_block_start
ReservedBits(bm, sb) == {id \in 0..(sb.data_block_start - 1) : IsUsed(bm, id)}

NoSharedBlock(imap) ==
    /\ \A i \in DOMAIN imap : \A j \in DOMAIN imap :
          i # j => BlockSet(imap[i].blocks) \cap BlockSet(imap[j].blocks) = {}
    /\ \A i \in DOMAIN imap :
          \A k \in 1..Len(imap[i].blocks) : \A l \in 1..Len(imap[i].blocks) :
              k # l => imap[i].blocks[k] # imap[i].blocks[l]

\* C36: after any sequence of create, write, rename, unlink and rmdir on the
\* mounted driver no data block id is in the block lists of two live inodes, nor
\* twice within one block list
C36_NoSharedBlock == (mounted /\ ~remounted) => NoSharedBlock(inodes)

C36_Witness ==
    /\ ~remounted
    /\ reply.op = "write"
    /\ reply.status = "ok"
    /\ Cardinality({i \in DOMAIN inodes : inodes[i].blocks # << >>}) >= 2

\* ---------------------------------------------------------------- names and inodes

\* the names the cache binds to the inode id
NamesOf(cache, id) == {n \in DOMAIN cache : cache[n] = id}

\* C37: on a volume mounted with the root as its only live inode, after any
\* sequence of create, rename, unlink and rmdir every live inode with id >= 2 is
\* bound to exactly one name of the directory cache and every cache entry points
\* to a live inode
C37_NamesMatchInodes ==
    (mounted /\ origin = "released" /\ ~remounted) =>
        /\ \A id \in DOMAIN inodes : id >= 2 => Cardinality(NamesOf(dir_cache, id)) = 1
        /\ \A n \in DOMAIN dir_cache : dir_cache[n] \in DOMAIN inodes

\* ---------------------------------------------------------------- write out of space

\* C38: a write that replies out-of-space leaves the bitmap in memory and on the
\* store and the block list and the size of every inode as they were before the
\* call
C38_FullWriteChangesNothing ==
    [][(Called("write") /\ reply'.status = "ENOSPC") =>
          /\ bitmap' = bitmap
          /\ storage'.fmap = storage.fmap
          /\ inodes' = inodes]_vars

\* ---------------------------------------------------------------- names that are not there

\* handler calls per run with names as the kernel passes them
MaxOpsOs == 3

\* the byte 0xFF: an OsStr that is not UTF-8 text
RawName == <<255>>

\* the names passed to rename, rmdir and unlink
OsNames == {ShortName, RawName}

\* fs.rs rename with the name as an OsStr: name.to_str().unwrap() and
\* newname.to_str().unwrap() panic on a name that is not UTF-8
rename_os(c, parent, name, newname, ord) ==
    IF parent # 1 THEN Result(c, "ENOENT", 0)
    ELSE IF ~IsUtf8(name) \/ ~IsUtf8(newname) THEN Result(c, "panic", 0)
    ELSE rename(c, parent, name, newname, ord)

\* fs.rs rmdir with the name as an OsStr: name.to_str().unwrap()
rmdir_os(c, parent, name, ord) ==
    IF parent # 1 THEN Result(c, "ENOENT", 0)
    ELSE IF ~IsUtf8(name) THEN Result(c, "panic", 0)
    ELSE rmdir(c, parent, name, ord)

\* fs.rs unlink with the name as an OsStr: to_str() of None replies ENOENT
unlink_os(c, parent, name, ord) ==
    IF parent # 1 THEN Result(c, "ENOENT", 0)
    ELSE IF ~IsUtf8(name) THEN Result(c, "ENOENT", 0)
    ELSE unlink(c, parent, name, ord)

\* the state a handler leaves; a panic ends the session and changes nothing else
Handled(r, rep) ==
    IF r.status = "panic"
      THEN /\ reply' = [rep EXCEPT !.status = "panic"]
           /\ mounted' = FALSE
           /\ trace' = [pre |-> storage, writes |-> << >>]
           /\ steps' = steps + 1
           /\ UNCHANGED << superblock, inodes, bitmap, dir_cache, storage, origin,
                           remounted, alloc_log >>
      ELSE Commit(r, rep)

ReadyOs == Ready /\ steps < MaxOpsOs

RenameOs(parent, name, newname, ord) ==
    /\ ReadyOs
    /\ ord \in OrdersOf((newname :> 0) @@ Remove(dir_cache, name))
    /\ Handled(rename_os(Ctx(0), parent, name, newname, ord),
               [NoReply EXCEPT !.op = "rename", !.name = name, !.data = newname,
                               !.ino = parent])

RmdirOs(parent, name, ord) ==
    /\ ReadyOs
    /\ ord \in OrdersOf(Remove(dir_cache, name))
    /\ Handled(rmdir_os(Ctx(0), parent, name, ord),
               [NoReply EXCEPT !.op = "rmdir", !.name = name, !.ino = parent])

UnlinkOs(parent, name, ord) ==
    /\ ReadyOs
    /\ ord \in OrdersOf(Remove(dir_cache, name))
    /\ Handled(unlink_os(Ctx(0), parent, name, ord),
               [NoReply EXCEPT !.op = "unlink", !.name = name, !.ino = parent])

NextOs ==
    \/ ReadyOs /\ \E name \in Names, mode \in Modes, ord \in Orders :
                     Create(name, mode, ord, 0)
    \/ ReadyOs /\ \E ino \in Inos, offset \in Offsets, data \in Payloads :
                     Write(ino, offset, data, 0)
    \/ \E parent \in Parents, name \in OsNames, newname \in OsNames, ord \in Orders :
          RenameOs(parent, name, newname, ord)
    \/ \E parent \in Parents, name \in OsNames, ord \in Orders : RmdirOs(parent, name, ord)
    \/ \E parent \in Parents, name \in OsNames, ord \in Orders : UnlinkOs(parent, name, ord)

SpecOs == Init /\ [][NextOs]_vars

\* C39: rename, unlink and rmdir on a name that is not in the directory cache, or
\* with a parent other than the root, reply not-found and leave the inode map,
\* the bitmap, the directory cache and every stored block unchanged
C39_MissingNameIsNotFound ==
    [][(/\ reply'.op \in {"rename", "rmdir", "unlink"}
        /\ steps' = steps + 1
        /\ reply'.ino # 1 \/ reply'.name \notin DOMAIN dir_cache)
       => /\ reply'.status = "ENOENT"
          /\ UNCHANGED << inodes, bitmap, dir_cache, storage >>]_vars

\* ---------------------------------------------------------------- read-modify-write

\* reads and writes, the store failing the read of the touched block in some writes
NextRmw ==
    \/ ReadyIO /\ \E ino \in InosIO, offset \in OffsetsIO, data \in PayloadsIO :
                     Write(ino, offset, data, 0)
    \/ \E ino \in InosIO, offset \in OffsetsIO, data \in PayloadsIO :
          WriteUnreadable(ino, offset, data)
    \/ \E ino \in InosIO, offset \in ReadOffsetsIO, size \in SizesIO :
          ReadIO(ino, offset, size)

SpecRmw == InitIO /\ [][NextRmw]_vars

\* C40: a successful write stores n = min(len, BLOCK_SIZE - offset mod BLOCK_SIZE)
\* bytes of the payload in the one block that holds offset and reports n; every
\* other byte of that block and every other block of the store is as before, the
\* file keeps the blocks it had, and a read of the n bytes at offset returns them
C40_WriteIsReadModifyWrite ==
    [][WroteOk =>
        LET t == Target(reply'.ino, superblock)
            off == reply'.offset % BLOCK_SIZE
            n == Min(Len(reply'.data), BLOCK_SIZE - off)
            phys == inodes'[t].blocks[(reply'.offset \div BLOCK_SIZE) + 1]
            back == read([inodes |-> inodes'], storage', reply'.ino, reply'.offset, n)
        IN /\ reply'.ret = n
           /\ \A i \in 1..BLOCK_SIZE :
                 read_block(storage', phys)[i] =
                     IF i > off /\ i <= off + n THEN reply'.data[i - off]
                     ELSE read_block(storage, phys)[i]
           /\ \A b \in DataRegion(superblock) \ {phys} :
                 read_block(storage', b) = read_block(storage, b)
           /\ SubSeq(inodes'[t].blocks, 1, Len(inodes[t].blocks)) = inodes[t].blocks
           /\ back.status = "ok"
           /\ back.data = SubSeq(reply'.data, 1, n)]_vars

====
